---- MODULE Spec2Model ----
(***************************************************************************)
(* Category tree engine and category-to-transaction reconciliation of the  *)
(* aero-accounting client (hooks/useCategories, hooks/useTransactions) on  *)
(* top of the record store declared in the SQL schema.                     *)
(*                                                                         *)
(* Strings are sequences of tokens.  The token " " is white space, the     *)
(* token " -> " is the three-character path separator ' → ' of the source; *)
(* every other token is a run of ordinary characters.                      *)
(***************************************************************************)
EXTENDS Integers, Sequences, FiniteSets, TLC

(* ------------------------------ bounds --------------------------------- *)

\* Category rows the store ever creates (ids are 1..MaxCats, never reused).
MaxCats == 4

\* Transactions already ingested into the store.
NumTxns == 1
NumAccounts == 2
MaxBatch == 2
MaxRows == 3

\* Calls the user makes in one run (a click on a link to the other page,
\* refresh, create, update, delete of a category, category change of a
\* transaction).
MaxCalls == 3

(* ----------------------------- constants ------------------------------- *)

NULL == 0          \* SQL NULL / JS null for an id
UNDEF == -1        \* JS undefined (a key absent from `updates`)
NoPath == <<>>     \* pathMap[id] === undefined

SYSTEM_CATEGORY_NAME == <<"Uncategorized">>

Sep == <<" -> ">>

\* DEFAULT_CATEGORY_STRUCTURE, flattened in the order insertCategory inserts
\* it (a seed, then its children); `parent` is the index of the parent seed.
\* The source lists 11 roots and 14 children; the model keeps the system
\* root and the first root with its first child.
DEFAULT_CATEGORY_STRUCTURE ==
    << [name |-> SYSTEM_CATEGORY_NAME, parent |-> 0, isSystem |-> TRUE],
       [name |-> <<"Income">>,         parent |-> 0, isSystem |-> FALSE],
       [name |-> <<"Salary">>,         parent |-> 2, isSystem |-> FALSE] >>

\* What a user may type into a name field.
RawNames ==
    { <<" ">>, <<"Income">>, <<" ", "Salary">>,
      <<"Income", " -> ", "Salary">> }

CatIds == 1..MaxCats
TxnIds == 1..NumTxns

(* ------------------------------ strings -------------------------------- *)

RECURSIVE TrimStart(_)
TrimStart(s) ==
    IF s # <<>> /\ Head(s) = " " THEN TrimStart(Tail(s)) ELSE s

RECURSIVE TrimEnd(_)
TrimEnd(s) ==
    IF s # <<>> /\ s[Len(s)] = " " THEN TrimEnd(SubSeq(s, 1, Len(s) - 1)) ELSE s

\* String.prototype.trim
Trim(s) == TrimEnd(TrimStart(s))

(* --------------------------- sequence helpers --------------------------- *)

Range(s) == { s[i] : i \in 1..Len(s) }

Includes(s, x) == \E i \in 1..Len(s) : s[i] = x

RECURSIVE FlatMap(_, _)
\* concatenation of Op(s[1]), Op(s[2]), ...
FlatMap(Op(_), s) ==
    IF s = <<>> THEN <<>> ELSE Op(Head(s)) \o FlatMap(Op, Tail(s))

RECURSIVE SortedIds(_)
\* the elements of a finite set of numbers, ascending
SortedIds(S) ==
    IF S = {} THEN <<>>
    ELSE LET m == CHOOSE x \in S : \A y \in S : x <= y
         IN <<m>> \o SortedIds(S \ {m})

(* ------------------------- tree and path building ----------------------- *)

\* categories.find((cat) => cat.id === id) is not undefined
Has(categories, id) == \E i \in 1..Len(categories) : categories[i].id = id

\* categories.find((cat) => cat.id === id), where Has(categories, id)
Find(categories, id) ==
    categories[CHOOSE i \in 1..Len(categories) :
                 /\ categories[i].id = id
                 /\ \A j \in 1..(i - 1) : categories[j].id # id]

\* createChildrenMap(categories).get(key) ?? []
createChildrenMap(categories, key) ==
    SelectSeq(categories, LAMBDA c : c.parent_id = key)

RECURSIVE buildNode(_, _, _)
\* the (id, fullPath) pairs buildNode writes into pathMap
buildNode(categories, category, parentPath) ==
    LET fullPath == IF parentPath # NoPath
                    THEN parentPath \o Sep \o category.name
                    ELSE category.name
        children == createChildrenMap(categories, category.id)
    IN {<<category.id, fullPath>>} \cup
       UNION { buildNode(categories, children[i], fullPath) :
                 i \in 1..Len(children) }

\* variant: the roots alone get a path
buildTreeAndPathsRootsOnly(categories) ==
    LET roots == createChildrenMap(categories, NULL)
    IN [id \in CatIds |->
          IF \E i \in 1..Len(roots) : roots[i].id = id
          THEN (CHOOSE r \in Range(roots) : r.id = id).name
          ELSE NoPath]

\* buildTreeAndPaths(categories).pathMap, NoPath where the key is absent
buildTreeAndPaths(categories) ==
    LET roots == createChildrenMap(categories, NULL)
        pairs == UNION { buildNode(categories, roots[i], NoPath) :
                           i \in 1..Len(roots) }
    IN [id \in CatIds |->
          IF \E p \in pairs : p[1] = id
          THEN (CHOOSE p \in pairs : p[1] = id)[2]
          ELSE NoPath]

RECURSIVE NthParent(_, _, _)
\* the id reached from id by following parent_id n times, NULL once the
\* chain has left the list
NthParent(categories, id, n) ==
    IF n = 0 \/ id = NULL THEN id
    ELSE IF ~Has(categories, id) THEN NULL
    ELSE NthParent(categories, Find(categories, id).parent_id, n - 1)

\* the parent_id links of `categories` contain a cycle
HasCycle(categories) ==
    \E i \in 1..Len(categories) :
      NthParent(categories, categories[i].id, Len(categories)) # NULL

RECURSIVE collectDescendantsFrom(_, _, _)
collectDescendantsFrom(categories, categoryId, fuel) ==
    IF fuel = 0 THEN <<>>
    ELSE FlatMap(LAMBDA child :
                   <<child.id>> \o
                   collectDescendantsFrom(categories, child.id, fuel - 1),
                 createChildrenMap(categories, categoryId))

\* variant: the children of categoryId only, nothing deeper
collectDescendantsChildrenOnly(categories, categoryId) ==
    SelectSeq([i \in 1..Len(categories) |-> categories[i].id],
              LAMBDA id : Find(categories, id).parent_id = categoryId)

\* buildDescendantsMap(categories)[categoryId] ?? []: children in list order,
\* each followed by its own descendants.  The recursion of the source does
\* not return on a cyclic list (see Crashed).
collectDescendants(categories, categoryId) ==
    collectDescendantsFrom(categories, categoryId, Len(categories))

(* ------------------------------ the store ------------------------------- *)

\* select('*').order('created_at'): ids are issued in creation order
SelectCategories(rows) ==
    LET ids == SortedIds({ r.id : r \in rows })
    IN [i \in 1..Len(ids) |-> CHOOSE r \in rows : r.id = ids[i]]

\* parent_id UUID REFERENCES categories(id)
ForeignKeyOk(rows, parent) ==
    parent = NULL \/ \E r \in rows : r.id = parent

\* CONSTRAINT categories_unique_name_per_parent UNIQUE (user_id, parent_id,
\* name): two NULLs are distinct for a UNIQUE constraint, so rows without a
\* parent never conflict.
UniqueOk(rows, id, name, parent) ==
    parent = NULL \/
    ~ \E r \in rows : r.id # id /\ r.parent_id = parent /\ r.name = name

\* insert(payload) on categories is accepted
InsertAccepted(rows, name, parent) ==
    ForeignKeyOk(rows, parent) /\ UniqueOk(rows, NULL, name, parent)

\* a category row with payload applied ({name?, parent_id?})
ApplyPayload(row, hasName, name, parent) ==
    [row EXCEPT !.name = IF hasName THEN name ELSE @,
                !.parent_id = IF parent # UNDEF THEN parent ELSE @]

\* update(payload).eq('id', id) on categories is accepted
UpdateAccepted(rows, id, hasName, name, parent) ==
    \A r \in rows :
      r.id = id =>
        LET n == ApplyPayload(r, hasName, name, parent)
        IN ForeignKeyOk(rows, n.parent_id) /\
           UniqueOk(rows, id, n.name, n.parent_id)

\* the rows update(payload).eq('id', id) leaves
UpdateRows(rows, id, hasName, name, parent) ==
    { IF r.id = id THEN ApplyPayload(r, hasName, name, parent) ELSE r :
        r \in rows }

\* the ids delete().eq('id', id) removes: the row and, by ON DELETE CASCADE
\* on parent_id, every row below it
CascadeIds(rows, id) ==
    LET down[n \in 0..Cardinality(rows)] ==
          IF n = 0 THEN { r.id : r \in { x \in rows : x.id = id } }
          ELSE down[n - 1] \cup
               { r.id : r \in { x \in rows : x.parent_id \in down[n - 1] } }
    IN down[Cardinality(rows)]

DeleteRows(rows, id) == { r \in rows : r.id \notin CascadeIds(rows, id) }

\* transactions.category_id ... ON DELETE SET NULL
\* variant: ON DELETE CASCADE, the rows that reference a deleted category go
SetNullOnDeleteCascading(txns, gone) ==
    SelectSeq(txns, LAMBDA r : r.category_id \notin gone)

SetNullOnDelete(txns, gone) ==
    [t \in DOMAIN txns |->
       IF txns[t].category_id \in gone
       THEN [txns[t] EXCEPT !.category_id = NULL] ELSE txns[t]]

\* variant: a label that starts with oldLabel has that prefix replaced
RewriteLabelByPrefix(txns, oldLabel, newLabel) ==
    [t \in DOMAIN txns |->
       IF Len(oldLabel) <= Len(txns[t].category)
          /\ SubSeq(txns[t].category, 1, Len(oldLabel)) = oldLabel
       THEN [txns[t] EXCEPT !.category =
               newLabel \o SubSeq(txns[t].category, Len(oldLabel) + 1,
                                  Len(txns[t].category))]
       ELSE txns[t]]

\* update({category: newLabel}).eq('category', oldLabel) on transactions
RewriteLabel(txns, oldLabel, newLabel) ==
    [t \in DOMAIN txns |->
       IF txns[t].category = oldLabel
       THEN [txns[t] EXCEPT !.category = newLabel] ELSE txns[t]]

(* ------------------------------- state ---------------------------------- *)

VARIABLES
    dbCats,     \* store: the rows of table categories (owner temp-user-1)
    dbTxns,     \* store: the rows of table transactions (owner
                \* temp-user-1), row t has id t
    nextId,     \* store: the id the next inserted category row gets
    memCats,    \* useCategories: the `categories` state, a list
    isSeeding,  \* useCategories: the `isSeeding` state
    loads,      \* loadCategories calls awaiting their select, each with the
                \* isSeeding value its closure captured
    seed,       \* the running seedDefaultCategories call: pc = 0 none,
                \* pc = k about to insert seed k, pc = N + 1 awaiting the
                \* trailing loadCategories(); ids = the ids inserted so far
    op,         \* the latest createCategory / updateCategory /
                \* deleteCategory / updateTransactionCategory call
    made,       \* the number of calls the user has made
    page,       \* the page shown: "main" (app/page.tsx) or "settings"
                \* (app/settings/categories/page.tsx); each mounts its own
                \* useCategories
    left,       \* what the hook of the page left behind still runs: load =
                \* a loadCategories call (isSeeding = false) awaits its
                \* select; pc, ids = its seedDefaultCategories, as in `seed`
    categoriesError,      \* useCategories: the `error` state ("" for null)
    accountId,            \* useTransactions: the account it is called with
    transactions,         \* useTransactions: the `transactions` state
    loading,              \* useTransactions: the `loading` state
    transactionsError,    \* useTransactions: the `error` state ("" for null)
    currentAccountIdRef,  \* useTransactions: currentAccountIdRef.current
    fetches,    \* the transaction loads awaiting their select
    inserts,    \* the addTransactions calls awaiting their insert, in the
                \* order they were made
    edits,      \* the updateTransactionCategory calls awaiting their update
    input,      \* the argument a function of the program is applied to
    output,     \* what the function returned or threw, NotApplied before
    flight      \* the updateCategory / deleteCategory calls of callers that
                \* do not wait for the call before: flight[s] is the latest
                \* call that took place s

\* the state of useTransactions and its calls in flight
ledger ==
    <<accountId, transactions, loading, transactionsError,
      currentAccountIdRef, fetches,
      inserts, edits>>

\* a function applied on its own
pure == <<input, output>>

vars ==
    <<dbCats, dbTxns, nextId, memCats, isSeeding, loads, seed, op, made,
      page, left, categoriesError, ledger, pure, flight>>

\* what the actions of the mounted useCategories leave alone
elsewhere == <<page, left, ledger, pure, flight>>

NumSeeds == Len(DEFAULT_CATEGORY_STRUCTURE)

\* the hook of the page left behind has no call in flight
NothingLeft == [load |-> FALSE, pc |-> 0, ids |-> <<>>]

\* a row of table transactions (columns id, date, description, amount,
\* balance, category, category_id, account_id; amounts in thousandths): what
\* an upload of the statement line "2024-01-05, Rent, 1.00" left, with the
\* category it was given since
TxnRow(id, category, category_id) ==
    [id |-> id, date |-> <<"2024-01-05">>, description |-> <<"Rent">>,
     amount |-> 1000, balance |-> NULL, category |-> category,
     category_id |-> category_id, account_id |-> NULL]

NoUpdates == [hasName |-> FALSE, name |-> <<>>, parent_id |-> UNDEF]

\* no call made yet
NoOp ==
    [kind |-> "none", status |-> "ok", error |-> "", id |-> NULL,
     updates |-> NoUpdates, cats |-> <<>>, pc |-> 0, calls |-> 0,
     pre |-> <<>>]

\* call c threw before its first store call
Rejected(c, error) == [c EXCEPT !.status = "validation", !.error = error]

\* call c returned (status "ok") or threw after a store call failed (status
\* "store"); the record keeps what the call was made with
Returned(c, status, error) == [c EXCEPT !.status = status, !.error = error]

\* no function is applied on its own
NotApplied == [error |-> "not applied", transactions |-> <<>>]

MaxInFlight == 2

\* no caller has made a call without waiting
NoFlight == [s \in 1..MaxInFlight |-> NoOp]

NoFunction ==
    /\ input = <<>>
    /\ output = NotApplied
    /\ flight = NoFlight

\* useTransactions is not looked at: nothing of it changes
NoLedger ==
    /\ accountId = NULL
    /\ transactions = <<>>
    /\ loading = FALSE
    /\ transactionsError = ""
    /\ currentAccountIdRef = NULL
    /\ fetches = {}
    /\ inserts = <<>>
    /\ edits = {}

Init ==
    /\ dbCats = {}
    /\ dbTxns = [t \in TxnIds |-> TxnRow(t, SYSTEM_CATEGORY_NAME, NULL)]
    /\ nextId = 1
    /\ memCats = <<>>
    /\ isSeeding = FALSE
    /\ loads = {[isSeeding |-> FALSE]}      \* useEffect on mount
    /\ seed = [pc |-> 0, ids |-> <<>>]
    /\ op = NoOp
    /\ made = 0
    /\ page \in {"main", "settings"}
    /\ left = NothingLeft
    /\ categoriesError = ""
    /\ NoLedger
    /\ NoFunction

\* buildDescendantsMap, run on every render, recurses without end on a list
\* whose parent_id links contain a cycle: the render throws.
Crashed == HasCycle(memCats)

\* the user makes one more call
UserCall == made < MaxCalls /\ made' = made + 1

\* no call of a hook is in flight: the user waits for the page to settle
Idle ==
    /\ loads = {}
    /\ seed.pc = 0
    /\ left = NothingLeft
    /\ op.status # "running"
    /\ ~Crashed

(* ---------------------------- load and seed ----------------------------- *)

\* (data?.length ?? 0) === 0 && !isSeeding, with the isSeeding of the closure
ShouldSeed(data, closureIsSeeding) ==
    Len(data) = 0 /\ ~closureIsSeeding

\* loadCategories: the select answers and the rest of the call runs.
LoadCategories(l) ==
    /\ l \in loads
    /\ l.isSeeding \/ seed.pc = 0
    /\ ~Crashed
    /\ \E ok \in BOOLEAN :
         LET data == SelectCategories(dbCats)
         IN IF ~ok
            THEN \* fetchError: setError, setLoading(false)
                 /\ loads' = loads \ {l}
                 /\ categoriesError' = "error"
                 /\ UNCHANGED <<memCats, isSeeding, seed>>
            ELSE IF ShouldSeed(data, l.isSeeding)
            THEN \* seedDefaultCategories(): setIsSeeding(true) re-creates
                 \* loadCategories, so the effect calls it again
                 /\ isSeeding' = TRUE
                 /\ loads' = (loads \ {l}) \cup {[isSeeding |-> TRUE]}
                 /\ seed' = [pc |-> 1, ids |-> <<>>]
                 /\ categoriesError' = ""
                 /\ UNCHANGED memCats
            ELSE /\ memCats' = data
                 /\ loads' = loads \ {l}
                 /\ categoriesError' = ""
                 /\ UNCHANGED <<isSeeding, seed>>
    /\ UNCHANGED <<dbCats, dbTxns, nextId, op, made, elsewhere>>

\* insertCategory(seed, parentId): one insert of the seeding answers.
SeedInsert ==
    /\ seed.pc \in 1..NumSeeds
    /\ ~Crashed
    /\ \E ok \in BOOLEAN :
         LET s == DEFAULT_CATEGORY_STRUCTURE[seed.pc]
             parentId == IF s.parent = 0 THEN NULL ELSE seed.ids[s.parent]
         IN IF ok /\ nextId <= MaxCats
               /\ InsertAccepted(dbCats, s.name, parentId)
            THEN /\ dbCats' = dbCats \cup
                       {[id |-> nextId, name |-> s.name,
                         parent_id |-> parentId, is_system |-> s.isSystem]}
                 /\ nextId' = nextId + 1
                 /\ seed' = [pc |-> seed.pc + 1,
                             ids |-> Append(seed.ids, nextId)]
                 /\ UNCHANGED <<isSeeding, loads, categoriesError>>
            ELSE \* insertError: setError; finally setIsSeeding(false),
                 \* which re-creates loadCategories: the effect calls it
                 /\ seed' = [pc |-> 0, ids |-> <<>>]
                 /\ isSeeding' = FALSE
                 /\ loads' = loads \cup {[isSeeding |-> FALSE]}
                 /\ categoriesError' = "error"
                 /\ UNCHANGED <<dbCats, nextId>>
    /\ UNCHANGED <<dbTxns, memCats, op, made, elsewhere>>

\* the `await loadCategories()` that ends seedDefaultCategories (the
\* callback of the first render, isSeeding = false), then its finally.
SeedReload ==
    /\ seed.pc = NumSeeds + 1
    /\ ~Crashed
    /\ \E ok \in BOOLEAN :
         LET data == SelectCategories(dbCats)
         IN IF ok /\ ShouldSeed(data, FALSE)
            THEN \* seedDefaultCategories() once more: setError(null)
                 /\ seed' = [pc |-> 1, ids |-> <<>>]
                 /\ categoriesError' = ""
                 /\ UNCHANGED <<memCats, isSeeding, loads>>
            ELSE /\ memCats' = IF ok THEN data ELSE memCats
                 /\ categoriesError' = IF ok THEN "" ELSE "error"
                 /\ seed' = [pc |-> 0, ids |-> <<>>]
                 /\ isSeeding' = FALSE
                 /\ loads' = loads \cup {[isSeeding |-> FALSE]}
    /\ UNCHANGED <<dbCats, dbTxns, nextId, op, made, elsewhere>>

\* a click on the Link to the other page: the hook of this page unmounts,
\* its calls in flight run on (their setState calls do nothing), and the
\* other page mounts a hook of its own.  A render that threw shows no link.
Navigate ==
    /\ UserCall
    /\ op.status # "running"
    /\ ~Crashed
    /\ left = NothingLeft
    /\ page' = IF page = "main" THEN "settings" ELSE "main"
    /\ left' = [load |-> [isSeeding |-> FALSE] \in loads,
                pc |-> IF seed.pc \in 1..NumSeeds THEN seed.pc ELSE 0,
                ids |-> IF seed.pc \in 1..NumSeeds THEN seed.ids ELSE <<>>]
    /\ memCats' = <<>>
    /\ isSeeding' = FALSE
    /\ loads' = {[isSeeding |-> FALSE]}
    /\ seed' = [pc |-> 0, ids |-> <<>>]
    /\ op' = [NoOp EXCEPT !.kind = "navigate"]
    /\ categoriesError' = ""
    /\ UNCHANGED <<dbCats, dbTxns, nextId, ledger, pure, flight>>

\* loadCategories of the hook left behind: its select answers.
LeftLoadCategories ==
    /\ left.load /\ left.pc = 0
    /\ \E ok \in BOOLEAN :
         IF ok /\ ShouldSeed(SelectCategories(dbCats), FALSE)
         THEN left' = [load |-> FALSE, pc |-> 1, ids |-> <<>>]
         ELSE left' = NothingLeft
    /\ UNCHANGED <<dbCats, dbTxns, nextId, memCats, isSeeding, loads, seed,
                   op, made, page, categoriesError, ledger, pure, flight>>

\* insertCategory of the hook left behind: one insert answers.  The select
\* that ends this seeding changes nothing and is left out.
LeftSeedInsert ==
    /\ left.pc \in 1..NumSeeds
    /\ \E ok \in BOOLEAN :
         LET s == DEFAULT_CATEGORY_STRUCTURE[left.pc]
             parentId == IF s.parent = 0 THEN NULL ELSE left.ids[s.parent]
         IN IF ok /\ nextId <= MaxCats
               /\ InsertAccepted(dbCats, s.name, parentId)
            THEN /\ dbCats' = dbCats \cup
                       {[id |-> nextId, name |-> s.name,
                         parent_id |-> parentId, is_system |-> s.isSystem]}
                 /\ nextId' = nextId + 1
                 /\ left' = IF left.pc = NumSeeds
                            THEN [left EXCEPT !.pc = 0, !.ids = <<>>]
                            ELSE [left EXCEPT !.pc = @ + 1,
                                              !.ids = Append(@, nextId)]
            ELSE /\ left' = [left EXCEPT !.pc = 0, !.ids = <<>>]
                 /\ UNCHANGED <<dbCats, nextId>>
    /\ UNCHANGED <<dbTxns, memCats, isSeeding, loads, seed, op, made, page,
                   categoriesError, ledger, pure, flight>>

\* refreshCategories: the caller asks for a reload.
RefreshCategories ==
    /\ UserCall
    /\ Idle
    /\ loads' = {[isSeeding |-> isSeeding]}
    /\ op' = [NoOp EXCEPT !.kind = "refresh"]
    /\ UNCHANGED <<dbCats, dbTxns, nextId, memCats, isSeeding, seed,
                   categoriesError, elsewhere>>

(* --------------------------- createCategory ----------------------------- *)

\* variant: the catch block rethrows without setError
ErrorSetOnSuccess ==
    categoriesError' = IF op'.status = "ok" THEN "" ELSE categoriesError

\* the end of createCategory, updateCategory and deleteCategory: the catch
\* block does setError(err.message) and rethrows, the last line of the try
\* block does setError(null); a call that awaits the store has done neither
ErrorSet ==
    categoriesError' = IF op'.status = "running" THEN categoriesError
                       ELSE op'.error

\* variant: the name is tested before it is trimmed
createCategoryValidationUntrimmed(name) ==
    IF name = <<>> THEN "Category name is required" ELSE ""

\* the check of createCategory: the message of the error thrown, or ""
createCategoryValidation(name) ==
    IF Trim(name) = <<>> THEN "Category name is required" ELSE ""

\* createCategory(name, parentId): rejected before any store call, failed at
\* the insert, or inserted and appended to `categories`.
CreateCategory(name, parentId) ==
    /\ page = "settings"
    /\ UserCall
    /\ Idle
    /\ nextId <= MaxCats
    /\ \E ok \in BOOLEAN :
         LET trimmedName == Trim(name)
             call == [NoOp EXCEPT
                        !.kind = "create",
                        !.updates = [hasName |-> TRUE, name |-> name,
                                     parent_id |-> parentId],
                        !.pre = dbTxns]
             row == [id |-> nextId, name |-> trimmedName,
                     parent_id |-> parentId, is_system |-> FALSE]
         IN IF createCategoryValidation(name) # ""
            THEN /\ op' = Rejected(call, createCategoryValidation(name))
                 /\ UNCHANGED <<dbCats, nextId, memCats>>
            ELSE IF ok /\ InsertAccepted(dbCats, trimmedName, parentId)
            THEN /\ dbCats' = dbCats \cup {row}
                 /\ nextId' = nextId + 1
                 /\ memCats' = Append(memCats, row)
                 /\ op' = Returned([call EXCEPT !.id = nextId, !.calls = 1],
                                  "ok", "")
            ELSE /\ op' = Returned([call EXCEPT !.calls = 1],
                                  "store", "insertError")
                 /\ UNCHANGED <<dbCats, nextId, memCats>>
    /\ ErrorSet
    /\ UNCHANGED <<dbTxns, isSeeding, loads, seed, elsewhere>>

(* --------------------------- updateCategory ----------------------------- *)

\* the checks of updateCategory before its payload is built: the message of
\* the error thrown, "" when there is none
updateCategoryValidation(categories, categoryId, updates) ==
    IF ~Has(categories, categoryId)
    THEN "Category not found"
    ELSE IF Find(categories, categoryId).is_system
    THEN "System categories cannot be modified"
    ELSE IF updates.parent_id \notin {NULL, UNDEF}
            /\ updates.parent_id = categoryId
    THEN "A category cannot be its own parent"
    ELSE IF updates.parent_id \notin {NULL, UNDEF}
            /\ Includes(collectDescendants(categories, categoryId),
                        updates.parent_id)
    THEN "A category cannot be moved under one of its subcategories"
    ELSE IF updates.hasName /\ Trim(updates.name) = <<>>
    THEN "Category name is required"
    ELSE ""

\* variant: the descendants first, the target last
affectedIdsTargetLast(categories, categoryId) ==
    collectDescendants(categories, categoryId) \o <<categoryId>>

\* affectedIds = [categoryId, ...(descendantsMap[categoryId] ?? [])]
affectedIds(categories, categoryId) ==
    <<categoryId>> \o collectDescendants(categories, categoryId)

\* updatedCategories = categories.map(...)
updatedCategories(categories, categoryId, updates) ==
    [i \in 1..Len(categories) |->
       IF categories[i].id = categoryId
       THEN ApplyPayload(categories[i], updates.hasName,
                         Trim(updates.name), updates.parent_id)
       ELSE categories[i]]

\* oldPath && newPath && oldPath !== newPath for affectedIds[i] of call c
NeedsRewrite(c, i) ==
    LET affectedId == affectedIds(c.cats, c.id)[i]
        oldPath == buildTreeAndPaths(c.cats)[affectedId]
        newPath == buildTreeAndPaths(
                       updatedCategories(c.cats, c.id, c.updates))[affectedId]
    IN oldPath # NoPath /\ newPath # NoPath /\ oldPath # newPath

\* the first index >= from of affectedIds whose rewrite is issued, 0 if none
NextRewrite(c, from) ==
    LET n == Len(affectedIds(c.cats, c.id))
        S == { i \in from..n : NeedsRewrite(c, i) }
    IN IF S = {} THEN 0 ELSE CHOOSE i \in S : \A j \in S : i <= j

\* updateCategory(categoryId, updates), up to its first await.
UpdateCategory(categoryId, updates) ==
    /\ page = "settings"
    /\ UserCall
    /\ Idle
    /\ LET error == updateCategoryValidation(memCats, categoryId, updates)
           call == [NoOp EXCEPT
                      !.kind = "update", !.id = categoryId,
                      !.updates = updates, !.pre = dbTxns]
       IN IF error # ""
          THEN op' = Rejected(call, error)
          ELSE op' = [call EXCEPT !.status = "running", !.cats = memCats]
    /\ ErrorSet
    /\ UNCHANGED <<dbCats, dbTxns, nextId, memCats, isSeeding, loads, seed, elsewhere>>

\* after the last store call of updateCategory: setCategories(updatedCategories)
UpdateDone(c) ==
    /\ memCats' = updatedCategories(c.cats, c.id, c.updates)
    /\ op' = Returned(c, "ok", "")

\* the update of the category row answers.
UpdateCategoryWrite ==
    /\ op.kind = "update" /\ op.status = "running" /\ op.pc = 0
    /\ ~Crashed
    /\ \E ok \in BOOLEAN :
         LET name == Trim(op.updates.name)
             c == [op EXCEPT !.calls = @ + 1]
         IN IF ok /\ UpdateAccepted(dbCats, op.id, op.updates.hasName, name,
                                    op.updates.parent_id)
            THEN /\ dbCats' = UpdateRows(dbCats, op.id, op.updates.hasName,
                                         name, op.updates.parent_id)
                 /\ IF NextRewrite(c, 1) = 0
                    THEN UpdateDone(c)
                    ELSE /\ op' = [c EXCEPT !.pc = NextRewrite(c, 1)]
                         /\ UNCHANGED memCats
            ELSE /\ op' = Returned(c, "store", "updateError")
                 /\ UNCHANGED <<dbCats, memCats>>
    /\ ErrorSet
    /\ UNCHANGED <<dbTxns, nextId, isSeeding, loads, seed, made, elsewhere>>

\* the rewrite of the transactions labelled with one old path answers.
UpdateCategoryRewrite ==
    /\ op.kind = "update" /\ op.status = "running" /\ op.pc > 0
    /\ ~Crashed
    /\ \E ok \in BOOLEAN :
         LET affectedId == affectedIds(op.cats, op.id)[op.pc]
             oldPath == buildTreeAndPaths(op.cats)[affectedId]
             newPath == buildTreeAndPaths(
                 updatedCategories(op.cats, op.id, op.updates))[affectedId]
             c == [op EXCEPT !.calls = @ + 1]
         IN IF ok
            THEN /\ dbTxns' = RewriteLabel(dbTxns, oldPath, newPath)
                 /\ IF NextRewrite(c, op.pc + 1) = 0
                    THEN UpdateDone(c)
                    ELSE /\ op' = [c EXCEPT !.pc = NextRewrite(c, op.pc + 1)]
                         /\ UNCHANGED memCats
            ELSE /\ op' = Returned(c, "store", "txnUpdateError")
                 /\ UNCHANGED <<dbTxns, memCats>>
    /\ ErrorSet
    /\ UNCHANGED <<dbCats, nextId, isSeeding, loads, seed, made, elsewhere>>

(* --------------------------- deleteCategory ----------------------------- *)

\* variant: deleteCategory without its is_system check
deleteCategoryValidationAnyCategory(categories, categoryId) ==
    IF ~Has(categories, categoryId) THEN "Category not found" ELSE ""

\* the checks of deleteCategory: the message of the error thrown, or ""
deleteCategoryValidation(categories, categoryId) ==
    IF ~Has(categories, categoryId)
    THEN "Category not found"
    ELSE IF Find(categories, categoryId).is_system
    THEN "System categories cannot be deleted"
    ELSE ""

\* variant: the path of the deleted category alone
pathsToResetOwnPath(categories, categoryId) ==
    SelectSeq(<<buildTreeAndPaths(categories)[categoryId]>>,
              LAMBDA path : path # NoPath)

\* pathsToReset = affectedIds.map((id) => pathMap[id]).filter(Boolean)
pathsToReset(categories, categoryId) ==
    LET pathMap == buildTreeAndPaths(categories)
        aff == affectedIds(categories, categoryId)
    IN SelectSeq([i \in 1..Len(aff) |-> pathMap[aff[i]]],
                 LAMBDA path : path # NoPath)

\* deleteCategory(categoryId), up to its first await.
DeleteCategory(categoryId) ==
    /\ page = "settings"
    /\ UserCall
    /\ Idle
    /\ LET error == deleteCategoryValidation(memCats, categoryId)
           call == [NoOp EXCEPT
                      !.kind = "delete", !.id = categoryId, !.pre = dbTxns]
       IN IF error # ""
          THEN op' = Rejected(call, error)
          ELSE op' = [call EXCEPT !.status = "running", !.cats = memCats]
    /\ ErrorSet
    /\ UNCHANGED <<dbCats, dbTxns, nextId, memCats, isSeeding, loads, seed, elsewhere>>

\* after the last store call of deleteCategory:
\* setCategories((prev) => prev.filter((cat) => !affectedIds.includes(cat.id)))
DeleteDone(c) ==
    /\ memCats' = SelectSeq(memCats, LAMBDA cat :
                      ~Includes(affectedIds(c.cats, c.id), cat.id))
    /\ op' = Returned(c, "ok", "")

\* the delete of the category row answers.
DeleteCategoryWrite ==
    /\ op.kind = "delete" /\ op.status = "running" /\ op.pc = 0
    /\ ~Crashed
    /\ \E ok \in BOOLEAN :
         LET c == [op EXCEPT !.calls = @ + 1]
         IN IF ok
            THEN /\ dbCats' = DeleteRows(dbCats, op.id)
                 /\ dbTxns' = SetNullOnDelete(dbTxns, CascadeIds(dbCats, op.id))
                 /\ IF Len(pathsToReset(op.cats, op.id)) = 0
                    THEN DeleteDone(c)
                    ELSE /\ op' = [c EXCEPT !.pc = 1]
                         /\ UNCHANGED memCats
            ELSE /\ op' = Returned(c, "store", "deleteError")
                 /\ UNCHANGED <<dbCats, dbTxns, memCats>>
    /\ ErrorSet
    /\ UNCHANGED <<nextId, isSeeding, loads, seed, made, elsewhere>>

\* the reset of the transactions labelled with one deleted path answers.
DeleteCategoryReset ==
    /\ op.kind = "delete" /\ op.status = "running" /\ op.pc > 0
    /\ ~Crashed
    /\ \E ok \in BOOLEAN :
         LET paths == pathsToReset(op.cats, op.id)
             c == [op EXCEPT !.calls = @ + 1]
         IN IF ok
            THEN /\ dbTxns' = RewriteLabel(dbTxns, paths[op.pc],
                                           SYSTEM_CATEGORY_NAME)
                 /\ IF op.pc = Len(paths)
                    THEN DeleteDone(c)
                    ELSE /\ op' = [c EXCEPT !.pc = op.pc + 1]
                         /\ UNCHANGED memCats
            ELSE /\ op' = Returned(c, "store", "resetError")
                 /\ UNCHANGED <<dbTxns, memCats>>
    /\ ErrorSet
    /\ UNCHANGED <<dbCats, nextId, isSeeding, loads, seed, made, elsewhere>>

(* ---------------------- updateTransactionCategory ----------------------- *)

\* the place of a token in the order of localeCompare
TokenRank(tok) ==
    CASE tok = " " -> 0
      [] tok = " -> " -> 1
      [] tok = "Income" -> 2
      [] tok = "Salary" -> 3
      [] OTHER -> 4

RECURSIVE LabelBefore(_, _)
\* a.localeCompare(b) < 0
LabelBefore(a, b) ==
    IF a = <<>> THEN b # <<>>
    ELSE IF b = <<>> THEN FALSE
    ELSE IF Head(a) = Head(b) THEN LabelBefore(Tail(a), Tail(b))
    ELSE TokenRank(Head(a)) < TokenRank(Head(b))

\* the comparator of the option sorts is negative for (a, b)
OptionBefore(a, b) ==
    \/ a.isSystem /\ ~b.isSystem
    \/ a.isSystem = b.isSystem /\ LabelBefore(a.label, b.label)

\* variant: the comparator looks at isSystem only
SortOptionsSystemFirst(s) ==
    SelectSeq(s, LAMBDA e : e.isSystem) \o SelectSeq(s, LAMBDA e : ~e.isSystem)

RECURSIVE SortOptions(_)
\* Array.prototype.sort with that comparator (a stable sort)
SortOptions(s) ==
    IF s = <<>> THEN <<>>
    ELSE LET rest == SortOptions(Tail(s))
         IN SelectSeq(rest, LAMBDA e : OptionBefore(e, Head(s)))
            \o <<Head(s)>>
            \o SelectSeq(rest, LAMBDA e : ~OptionBefore(e, Head(s)))

\* the entries of s whose label no earlier entry has
FirstOfEachLabel(s) ==
    LET idx == SelectSeq([i \in 1..Len(s) |-> i],
                         LAMBDA i : \A j \in 1..(i - 1) :
                                      s[j].label # s[i].label)
    IN [k \in 1..Len(idx) |-> s[idx[k]]]

\* categoryOptions of the hook.  The placeholder id 'system-uncategorized'
\* and the ids 'legacy-...' below are no category ids: the callers replace
\* them by null, and so do these options.
categoryOptions(categories) ==
    IF Len(categories) = 0
    THEN << [id |-> NULL, label |-> SYSTEM_CATEGORY_NAME, isSystem |-> TRUE] >>
    ELSE SortOptions(
           [i \in 1..Len(categories) |->
              [id |-> categories[i].id,
               label |-> IF buildTreeAndPaths(categories)[categories[i].id]
                            # NoPath
                         THEN buildTreeAndPaths(categories)[categories[i].id]
                         ELSE categories[i].name,
               isSystem |-> categories[i].is_system]])

\* sortedCategoryOptions of TransactionList: the options of the hook, then
\* one legacy option per transaction label that is no option label
sortedCategoryOptions(categories, txns) ==
    LET options == categoryOptions(categories)
        uniqueCategories ==
            FirstOfEachLabel([t \in 1..Len(txns) |->
                                [label |-> txns[t].category]])
        legacyCategories ==
            [i \in 1..Len(uniqueCategories) |->
               [id |-> NULL, label |-> uniqueCategories[i].label,
                isSystem |-> uniqueCategories[i].label = SYSTEM_CATEGORY_NAME]]
    IN SortOptions(FirstOfEachLabel(options \o legacyCategories))

\* the first option of the list that meets Test
FirstOption(options, Test(_)) ==
    options[CHOOSE i \in 1..Len(options) :
              Test(options[i]) /\ \A j \in 1..(i - 1) : ~Test(options[j])]

\* the value the select of transaction row t shows
SelectValue(options, t) ==
    LET Shown(o) == (o.id # NULL /\ o.id = t.category_id)
                    \/ o.label = t.category
    IN IF \E i \in 1..Len(options) : Shown(options[i])
       THEN FirstOption(options, Shown).label
       ELSE t.category

\* the labels the select of transaction id lets the user change to
SelectableLabels(id) ==
    LET options == sortedCategoryOptions(memCats, dbTxns)
    IN { options[i].label : i \in 1..Len(options) }
         \ {SelectValue(options, dbTxns[id])}

\* onChange of the select, then updateTransactionCategory(id, {id, label}):
\* the store row gets the label and the id of the first option so labelled.
\* The list of transactions shown is the list of the store.
UpdateTransactionCategory(id, selectedLabel) ==
    /\ page = "main"
    /\ UserCall
    /\ Idle
    /\ selectedLabel \in SelectableLabels(id)
    /\ \E ok \in BOOLEAN :
         LET matchedOption ==
                 FirstOption(sortedCategoryOptions(memCats, dbTxns),
                             LAMBDA o : o.label = selectedLabel)
             category == [id |-> matchedOption.id, label |-> selectedLabel]
             call == [NoOp EXCEPT !.kind = "txn", !.id = id, !.calls = 1,
                                 !.pre = dbTxns]
         IN IF ok /\ ForeignKeyOk(dbCats, category.id)
            THEN /\ dbTxns' = [dbTxns EXCEPT
                                 ![id].category = category.label,
                                 ![id].category_id = category.id]
                 /\ op' = Returned(call, "ok", "")
            ELSE /\ op' = Returned(call, "store", "error")
                 /\ UNCHANGED dbTxns
    /\ UNCHANGED <<dbCats, nextId, memCats, isSeeding, loads, seed,
                   categoriesError, elsewhere>>

(* ---------------------------- specification ----------------------------- *)

\* the parents the forms offer: none, or a category of the list
ParentInputs == {NULL} \cup { memCats[i].id : i \in 1..Len(memCats) }

\* the `updates` argument: a name and a parent, or one of the two
UpdateInputs ==
    { [hasName |-> TRUE, name |-> n, parent_id |-> p] :
        n \in RawNames, p \in ParentInputs \cup {UNDEF} } \cup
    { [hasName |-> FALSE, name |-> <<>>, parent_id |-> p] :
        p \in ParentInputs }

Next ==
    \/ \E l \in loads : LoadCategories(l)
    \/ SeedInsert
    \/ SeedReload
    \/ Navigate
    \/ LeftLoadCategories
    \/ LeftSeedInsert
    \/ RefreshCategories
    \/ \E name \in RawNames, parentId \in ParentInputs :
         CreateCategory(name, parentId)
    \/ \E categoryId \in CatIds, updates \in UpdateInputs :
         UpdateCategory(categoryId, updates)
    \/ UpdateCategoryWrite
    \/ UpdateCategoryRewrite
    \/ \E categoryId \in CatIds : DeleteCategory(categoryId)
    \/ DeleteCategoryWrite
    \/ DeleteCategoryReset
    \/ \E id \in TxnIds :
         \E selectedLabel \in SelectableLabels(id) :
           UpdateTransactionCategory(id, selectedLabel)

Spec == Init /\ [][Next]_vars

(* ------------------- a session on a store already filled ---------------- *)

\* the rows a complete seedDefaultCategories run leaves in an empty store
SeededRows ==
    { [id |-> i, name |-> DEFAULT_CATEGORY_STRUCTURE[i].name,
       parent_id |-> DEFAULT_CATEGORY_STRUCTURE[i].parent,
       is_system |-> DEFAULT_CATEGORY_STRUCTURE[i].isSystem] :
        i \in 1..NumSeeds }

\* the seeded rows after updateCategory(3, {name: 'Income -> Salary',
\* parent_id: null}): the child of Income is now a root
MovedRows ==
    UpdateRows(SeededRows, NumSeeds, TRUE, <<"Income", " -> ", "Salary">>,
               NULL)

\* the settings page has loaded a store that earlier sessions filled: the
\* defaults, as seeded or with the child moved to the root, and transactions
\* that carry the system label or the path and id of a category
InitCascade ==
    /\ dbCats \in {SeededRows, MovedRows}
    /\ \E cs \in [TxnIds -> 0..NumSeeds] :
         dbTxns =
           [t \in TxnIds |->
              IF cs[t] = 0 THEN TxnRow(t, SYSTEM_CATEGORY_NAME, NULL)
              ELSE TxnRow(t,
                          buildTreeAndPaths(SelectCategories(dbCats))[cs[t]],
                          cs[t])]
    /\ nextId = NumSeeds + 1
    /\ memCats = SelectCategories(dbCats)
    /\ isSeeding = FALSE
    /\ loads = {}
    /\ seed = [pc |-> 0, ids |-> <<>>]
    /\ op = NoOp
    /\ made = 0
    /\ page = "settings"
    /\ left = NothingLeft
    /\ categoriesError = ""
    /\ NoLedger
    /\ NoFunction

\* the category edits of that session
NextCascade ==
    \/ \E categoryId \in CatIds, updates \in UpdateInputs :
         UpdateCategory(categoryId, updates)
    \/ UpdateCategoryWrite
    \/ UpdateCategoryRewrite
    \/ \E categoryId \in CatIds : DeleteCategory(categoryId)
    \/ DeleteCategoryWrite
    \/ DeleteCategoryReset

SpecCascade == InitCascade /\ [][NextCascade]_vars

(* ------------------ callers that do not wait for a call ----------------- *)

\* useCategories returns createCategory, updateCategory and deleteCategory as
\* plain async functions: nothing in the hook holds a call back while another
\* is awaiting the store.  Each call in flight works on the `categories`,
\* `pathMap` and `descendantsMap` of the render it was made in (c.cats).

\* the calls in flight
InFlight == { s \in 1..MaxInFlight : flight[s].status = "running" }

\* the place a new call takes: the first that holds no call in flight
FreePlace ==
    IF InFlight = 1..MaxInFlight THEN 0
    ELSE CHOOSE s \in 1..MaxInFlight \ InFlight :
           \A r \in 1..MaxInFlight \ InFlight : s <= r

\* the name these callers type
OverlapName == <<" ", "Salary">>

\* the `updates` of these callers: a new parent, or a new name
OverlapInputs ==
    { [hasName |-> FALSE, name |-> <<>>, parent_id |-> p] :
        p \in ParentInputs } \cup
    { [hasName |-> TRUE, name |-> OverlapName, parent_id |-> UNDEF] }

\* the call has ended: what is kept of it is its kind, its target and how
\* it ended
Ended(c, status, error) ==
    [NoOp EXCEPT !.kind = c.kind, !.id = c.id, !.status = status,
                 !.error = error]

\* setError at the end of the call that took place s
FlightErrorSet(s) ==
    categoriesError' = IF flight'[s].status = "running" THEN categoriesError
                       ELSE flight'[s].error

\* createCategory(name, parentId) while other calls may be in flight: the
\* insert answers and setCategories((prev) => [...prev, data]) runs
CreateCategoryMeanwhile(name, parentId) ==
    /\ page = "settings"
    /\ UserCall
    /\ ~Crashed
    /\ nextId <= MaxCats
    /\ createCategoryValidation(name) = ""
    /\ \E ok \in BOOLEAN :
         LET row == [id |-> nextId, name |-> Trim(name),
                     parent_id |-> parentId, is_system |-> FALSE]
         IN IF ok /\ InsertAccepted(dbCats, Trim(name), parentId)
            THEN /\ dbCats' = dbCats \cup {row}
                 /\ nextId' = nextId + 1
                 /\ memCats' = Append(memCats, row)
                 /\ categoriesError' = ""
            ELSE /\ categoriesError' = "insertError"
                 /\ UNCHANGED <<dbCats, nextId, memCats>>
    /\ UNCHANGED <<dbTxns, isSeeding, loads, seed, op, page, left, ledger,
                   pure, flight>>

\* updateCategory(categoryId, updates), up to its first await
UpdateCategoryMeanwhile(categoryId, updates) ==
    /\ page = "settings"
    /\ UserCall
    /\ ~Crashed
    /\ FreePlace # 0
    /\ LET error == updateCategoryValidation(memCats, categoryId, updates)
           call == [NoOp EXCEPT
                      !.kind = "update", !.id = categoryId,
                      !.updates = updates]
       IN flight' = [flight EXCEPT ![FreePlace] =
                       IF error # "" THEN Ended(call, "validation", error)
                       ELSE [call EXCEPT !.status = "running",
                                         !.cats = memCats]]
    /\ FlightErrorSet(FreePlace)
    /\ UNCHANGED <<dbCats, dbTxns, nextId, memCats, isSeeding, loads, seed,
                   op, page, left, ledger, pure>>

\* the update of the category row of the call that took place s answers
UpdateCategoryWriteMeanwhile(s) ==
    /\ flight[s].kind = "update" /\ flight[s].status = "running"
    /\ flight[s].pc = 0
    /\ ~Crashed
    /\ \E ok \in BOOLEAN :
         LET name == Trim(flight[s].updates.name)
             c == [flight[s] EXCEPT !.calls = @ + 1]
         IN IF ok /\ UpdateAccepted(dbCats, c.id, c.updates.hasName, name,
                                    c.updates.parent_id)
            THEN /\ dbCats' = UpdateRows(dbCats, c.id, c.updates.hasName,
                                         name, c.updates.parent_id)
                 /\ IF NextRewrite(c, 1) = 0
                    THEN /\ memCats' =
                              updatedCategories(c.cats, c.id, c.updates)
                         /\ flight' = [flight EXCEPT
                                         ![s] = Ended(c, "ok", "")]
                    ELSE /\ flight' = [flight EXCEPT
                                         ![s] = [c EXCEPT
                                                   !.pc = NextRewrite(c, 1)]]
                         /\ UNCHANGED memCats
            ELSE /\ flight' = [flight EXCEPT
                                 ![s] = Ended(c, "store", "updateError")]
                 /\ UNCHANGED <<dbCats, memCats>>
    /\ FlightErrorSet(s)
    /\ UNCHANGED <<dbTxns, nextId, isSeeding, loads, seed, op, made, page,
                   left, ledger, pure>>

\* the rewrite of the transactions labelled with one old path answers
UpdateCategoryRewriteMeanwhile(s) ==
    /\ flight[s].kind = "update" /\ flight[s].status = "running"
    /\ flight[s].pc > 0
    /\ ~Crashed
    /\ \E ok \in BOOLEAN :
         LET c == [flight[s] EXCEPT !.calls = @ + 1]
             affectedId == affectedIds(c.cats, c.id)[c.pc]
             oldPath == buildTreeAndPaths(c.cats)[affectedId]
             newPath == buildTreeAndPaths(
                 updatedCategories(c.cats, c.id, c.updates))[affectedId]
         IN IF ok
            THEN /\ dbTxns' = RewriteLabel(dbTxns, oldPath, newPath)
                 /\ IF NextRewrite(c, c.pc + 1) = 0
                    THEN /\ memCats' =
                              updatedCategories(c.cats, c.id, c.updates)
                         /\ flight' = [flight EXCEPT
                                         ![s] = Ended(c, "ok", "")]
                    ELSE /\ flight' =
                              [flight EXCEPT
                                 ![s] = [c EXCEPT
                                           !.pc = NextRewrite(c, c.pc + 1)]]
                         /\ UNCHANGED memCats
            ELSE /\ flight' = [flight EXCEPT
                                 ![s] = Ended(c, "store", "txnUpdateError")]
                 /\ UNCHANGED <<dbTxns, memCats>>
    /\ FlightErrorSet(s)
    /\ UNCHANGED <<dbCats, nextId, isSeeding, loads, seed, op, made, page,
                   left, ledger, pure>>

\* deleteCategory(categoryId), up to its first await
DeleteCategoryMeanwhile(categoryId) ==
    /\ page = "settings"
    /\ UserCall
    /\ ~Crashed
    /\ FreePlace # 0
    /\ LET error == deleteCategoryValidation(memCats, categoryId)
           call == [NoOp EXCEPT
                      !.kind = "delete", !.id = categoryId]
       IN flight' = [flight EXCEPT ![FreePlace] =
                       IF error # "" THEN Ended(call, "validation", error)
                       ELSE [call EXCEPT !.status = "running",
                                         !.cats = memCats]]
    /\ FlightErrorSet(FreePlace)
    /\ UNCHANGED <<dbCats, dbTxns, nextId, memCats, isSeeding, loads, seed,
                   op, page, left, ledger, pure>>

\* setCategories((prev) => prev.filter(...)) of delete call c
FilteredCategories(c) ==
    SelectSeq(memCats, LAMBDA cat :
                ~Includes(affectedIds(c.cats, c.id), cat.id))

\* the delete of the category row of the call that took place s answers
DeleteCategoryWriteMeanwhile(s) ==
    /\ flight[s].kind = "delete" /\ flight[s].status = "running"
    /\ flight[s].pc = 0
    /\ ~Crashed
    /\ \E ok \in BOOLEAN :
         LET c == [flight[s] EXCEPT !.calls = @ + 1]
         IN IF ok
            THEN /\ dbCats' = DeleteRows(dbCats, c.id)
                 /\ dbTxns' = SetNullOnDelete(dbTxns, CascadeIds(dbCats, c.id))
                 /\ IF Len(pathsToReset(c.cats, c.id)) = 0
                    THEN /\ memCats' = FilteredCategories(c)
                         /\ flight' = [flight EXCEPT
                                         ![s] = Ended(c, "ok", "")]
                    ELSE /\ flight' = [flight EXCEPT
                                         ![s] = [c EXCEPT !.pc = 1]]
                         /\ UNCHANGED memCats
            ELSE /\ flight' = [flight EXCEPT
                                 ![s] = Ended(c, "store", "deleteError")]
                 /\ UNCHANGED <<dbCats, dbTxns, memCats>>
    /\ FlightErrorSet(s)
    /\ UNCHANGED <<nextId, isSeeding, loads, seed, op, made, page, left,
                   ledger, pure>>

\* the reset of the transactions labelled with one deleted path answers
DeleteCategoryResetMeanwhile(s) ==
    /\ flight[s].kind = "delete" /\ flight[s].status = "running"
    /\ flight[s].pc > 0
    /\ ~Crashed
    /\ \E ok \in BOOLEAN :
         LET c == [flight[s] EXCEPT !.calls = @ + 1]
             paths == pathsToReset(c.cats, c.id)
         IN IF ok
            THEN /\ dbTxns' = RewriteLabel(dbTxns, paths[c.pc],
                                           SYSTEM_CATEGORY_NAME)
                 /\ IF c.pc = Len(paths)
                    THEN /\ memCats' = FilteredCategories(c)
                         /\ flight' = [flight EXCEPT
                                         ![s] = Ended(c, "ok", "")]
                    ELSE /\ flight' = [flight EXCEPT
                                         ![s] = [c EXCEPT !.pc = c.pc + 1]]
                         /\ UNCHANGED memCats
            ELSE /\ flight' = [flight EXCEPT
                                 ![s] = Ended(c, "store", "resetError")]
                 /\ UNCHANGED <<dbTxns, memCats>>
    /\ FlightErrorSet(s)
    /\ UNCHANGED <<dbCats, nextId, isSeeding, loads, seed, op, made, page,
                   left, ledger, pure>>

NextOverlap ==
    \/ \E parentId \in ParentInputs :
         CreateCategoryMeanwhile(OverlapName, parentId)
    \/ \E categoryId \in CatIds, updates \in OverlapInputs :
         UpdateCategoryMeanwhile(categoryId, updates)
    \/ \E s \in 1..MaxInFlight : UpdateCategoryWriteMeanwhile(s)
    \/ \E s \in 1..MaxInFlight : UpdateCategoryRewriteMeanwhile(s)
    \/ \E categoryId \in CatIds : DeleteCategoryMeanwhile(categoryId)
    \/ \E s \in 1..MaxInFlight : DeleteCategoryWriteMeanwhile(s)
    \/ \E s \in 1..MaxInFlight : DeleteCategoryResetMeanwhile(s)

\* the settings page has loaded a store that holds the defaults, as seeded
\* or with the child moved to the root, and a transaction filed under the
\* last of them
InitOverlap ==
    /\ dbCats \in {SeededRows, MovedRows}
    /\ dbTxns =
         [t \in TxnIds |->
            TxnRow(t, buildTreeAndPaths(SelectCategories(dbCats))[NumSeeds],
                   NumSeeds)]
    /\ nextId = NumSeeds + 1
    /\ memCats = SelectCategories(dbCats)
    /\ isSeeding = FALSE
    /\ loads = {}
    /\ seed = [pc |-> 0, ids |-> <<>>]
    /\ op = NoOp
    /\ made = 0
    /\ page = "settings"
    /\ left = NothingLeft
    /\ categoriesError = ""
    /\ NoLedger
    /\ NoFunction

\* the settings page on a filled store, its callers not waiting
SpecOverlap == InitOverlap /\ [][NextOverlap]_vars

(* ---------------------- a store with a deeper tree ---------------------- *)

\* rows that createCategory calls leave in a store that was never seeded (the
\* first load failed): Income, below it Salary and 'Salary -> Salary', and
\* below Salary another Salary
DeepRows ==
    { [id |-> 1, name |-> <<"Income">>, parent_id |-> NULL,
       is_system |-> FALSE],
      [id |-> 2, name |-> <<"Salary">>, parent_id |-> 1,
       is_system |-> FALSE],
      [id |-> 3, name |-> <<"Salary">>, parent_id |-> 2,
       is_system |-> FALSE],
      [id |-> 4, name |-> <<"Salary", " -> ", "Salary">>, parent_id |-> 1,
       is_system |-> FALSE] }

\* the settings page has loaded that store
InitDeep ==
    /\ dbCats = DeepRows
    /\ dbTxns =
         [t \in TxnIds |->
            TxnRow(t, buildTreeAndPaths(SelectCategories(dbCats))[3], 3)]
    /\ nextId = 5
    /\ memCats = SelectCategories(dbCats)
    /\ isSeeding = FALSE
    /\ loads = {}
    /\ seed = [pc |-> 0, ids |-> <<>>]
    /\ op = NoOp
    /\ made = 0
    /\ page = "settings"
    /\ left = NothingLeft
    /\ categoriesError = ""
    /\ NoLedger
    /\ NoFunction

\* updateCategory calls, one after the other
NextDeep ==
    \/ \E categoryId \in CatIds, updates \in OverlapInputs :
         UpdateCategory(categoryId, updates)
    \/ UpdateCategoryWrite
    \/ UpdateCategoryRewrite

SpecDeep == InitDeep /\ [][NextDeep]_vars

(* ---------------------------- useTransactions --------------------------- *)

AccountIds == 1..NumAccounts

\* the lower-case form of a word of the model
LowerCaseWord(word) ==
    CASE word \in {"Rent", "RENT"} -> "rent"
      [] word = "Date" -> "date"
      [] word = "Description" -> "description"
      [] word = "Amount" -> "amount"
      [] word = "Balance" -> "balance"
      [] word = "Debit" -> "debit"
      [] word = "Credit" -> "credit"
      [] OTHER -> word

\* String.prototype.toLowerCase
ToLowerCase(s) == [i \in 1..Len(s) |-> LowerCaseWord(s[i])]

\* Number.prototype.toFixed(2) of an amount in thousandths: the sign and the
\* hundredths nearest to it, the larger of two that are as near
toFixed2(amount) ==
    [negative |-> amount < 0,
     hundredths |-> ((IF amount < 0 THEN -amount ELSE amount) + 5) \div 10]

\* createTransactionKey: `${date}|${description}|${amount.toFixed(2)}`; the
\* amounts of the model are finite numbers
createTransactionKey(transaction) ==
    << Trim(transaction.date),
       ToLowerCase(Trim(transaction.description)),
       toFixed2(transaction.amount) >>

\* the transactions a parsed statement may hold: the line of TxnRow, the
\* same line written differently (blanks, capitals, a third decimal), and a
\* line with another amount
Candidates ==
    { [date |-> d[1], description |-> d[2], amount |-> d[3],
       balance |-> UNDEF, category |-> SYSTEM_CATEGORY_NAME,
       category_id |-> UNDEF, account_id |-> UNDEF] :
        d \in { << <<"2024-01-05">>, <<"Rent">>, 1000 >>,
                << <<"2024-01-05", " ">>, <<" ", "RENT">>, 1004 >>,
                << <<"2024-01-05">>, <<"Rent">>, 1006 >> } }

\* the `newTransactions` argument
Batches == UNION { [1..n -> Candidates] : n \in 1..MaxBatch }

RECURSIVE FilterNew(_, _)
\* newTransactions.filter(...) of addTransactions: a candidate passes when
\* its key is not in existingKeys, and its key is added to existingKeys
FilterNew(newTransactions, existingKeys) ==
    IF newTransactions = <<>> THEN <<>>
    ELSE LET key == createTransactionKey(Head(newTransactions))
         IN IF key \in existingKeys
            THEN FilterNew(Tail(newTransactions), existingKeys)
            ELSE <<Head(newTransactions)>>
                 \o FilterNew(Tail(newTransactions), existingKeys \cup {key})

\* variant: the keys of the candidates that passed are not added
dedupedTransactionsKnownOnly(newTransactions, known) ==
    SelectSeq(newTransactions,
              LAMBDA t : \A i \in 1..Len(known) :
                           createTransactionKey(known[i])
                             # createTransactionKey(t))

\* dedupedTransactions of addTransactions, `known` being the `transactions`
\* of the render the call was made in
dedupedTransactions(newTransactions, known) ==
    FilterNew(newTransactions,
              { createTransactionKey(known[i]) : i \in 1..Len(known) })

\* x ?? null
OrNull(x) == IF x = UNDEF THEN NULL ELSE x

\* transactionsToInsert of addTransactions
transactionsToInsert(deduped, transactionAccountId) ==
    [i \in 1..Len(deduped) |->
       [date |-> deduped[i].date,
        description |-> deduped[i].description,
        amount |-> deduped[i].amount,
        balance |-> OrNull(deduped[i].balance),
        category |-> deduped[i].category,
        category_id |-> OrNull(deduped[i].category_id),
        account_id |-> IF OrNull(transactionAccountId) # NULL
                       THEN transactionAccountId
                       ELSE OrNull(deduped[i].account_id)]]

\* a value stored in a DECIMAL(15, 2) column: rounded to hundredths, half
\* away from zero
Decimal2(amount) ==
    IF amount < 0 THEN -(((-amount + 5) \div 10) * 10)
    ELSE ((amount + 5) \div 10) * 10

\* table transactions after .insert(toInsert): each row gets a fresh id
InsertTransactions(rows, toInsert) ==
    rows \o [i \in 1..Len(toInsert) |->
               [id |-> Len(rows) + i,
                date |-> toInsert[i].date,
                description |-> toInsert[i].description,
                amount |-> Decimal2(toInsert[i].amount),
                balance |-> toInsert[i].balance,
                category |-> toInsert[i].category,
                category_id |-> toInsert[i].category_id,
                account_id |-> toInsert[i].account_id]]

RECURSIVE OrderByDateDesc(_)
\* .order('date', { ascending: false }) on the TEXT column date; rows of
\* equal date are left in the order of the table
OrderByDateDesc(rows) ==
    IF rows = <<>> THEN <<>>
    ELSE LET rest == OrderByDateDesc(Tail(rows))
         IN SelectSeq(rest, LAMBDA r : LabelBefore(Head(rows).date, r.date))
            \o <<Head(rows)>>
            \o SelectSeq(rest,
                         LAMBDA r : ~LabelBefore(Head(rows).date, r.date))

\* the select of a load: every row of the owner, or those of one account
SelectTransactions(rows, account) ==
    OrderByDateDesc(SelectSeq(rows,
                              LAMBDA r : account = NULL
                                         \/ r.account_id = account))

\* the effect on accountId: a selection aborts the load of the effect
\* before, points currentAccountIdRef at the account, clears the list and
\* the error, sets loading and starts loadTransactionsForAccount.  A load in
\* flight is abandoned from then on; only the loads of the effect carry an
\* AbortController.
SelectAccount(account) ==
    /\ page = "main"
    /\ UserCall
    /\ account # accountId
    /\ accountId' = account
    /\ currentAccountIdRef' = account
    /\ transactions' = <<>>
    /\ transactionsError' = ""
    /\ loading' = TRUE
    /\ fetches' = { [f EXCEPT !.aborted = @ \/ ~f.manual,
                              !.abandoned = TRUE] : f \in fetches }
                  \cup {[account |-> account, manual |-> FALSE,
                         aborted |-> FALSE, abandoned |-> FALSE]}
    /\ UNCHANGED <<dbCats, dbTxns, nextId, memCats, isSeeding, loads, seed,
                   op, page, left, categoriesError, pure, flight, inserts, edits>>

\* loadTransactionsForAccount: the select of a load of the effect answers.
LoadTransactionsForAccount(f) ==
    /\ f \in fetches /\ ~f.manual
    /\ fetches' = fetches \ {f}
    /\ \E ok \in BOOLEAN :
         LET applies == ~f.aborted /\ currentAccountIdRef = f.account
         IN /\ transactions' = IF applies /\ ok
                               THEN SelectTransactions(dbTxns, f.account)
                               ELSE transactions
            /\ transactionsError' = IF ~applies THEN transactionsError
                        ELSE IF ok THEN "" ELSE "queryError"
            /\ loading' = IF applies THEN FALSE ELSE loading
    /\ UNCHANGED <<dbCats, dbTxns, nextId, memCats, isSeeding, loads, seed,
                   op, made, page, left, categoriesError, pure, flight, accountId,
                   currentAccountIdRef, inserts, edits>>

\* refreshTransactions: loadTransactions(accountId) up to its select.
RefreshTransactions ==
    /\ page = "main"
    /\ UserCall
    /\ loading' = TRUE
    /\ transactionsError' = ""
    /\ fetches' = fetches \cup {[account |-> accountId, manual |-> TRUE,
                                 aborted |-> FALSE, abandoned |-> FALSE]}
    /\ UNCHANGED <<dbCats, dbTxns, nextId, memCats, isSeeding, loads, seed,
                   op, page, left, categoriesError, pure, flight, accountId, transactions,
                   currentAccountIdRef, inserts, edits>>

\* variant: the finally block of loadTransactions left out
LoadTransactionsUnsettled(f) ==
    /\ f \in fetches /\ f.manual
    /\ fetches' = fetches \ {f}
    /\ \E ok \in BOOLEAN :
         LET applies == currentAccountIdRef = f.account
         IN /\ transactions' = IF applies /\ ok
                               THEN SelectTransactions(dbTxns, f.account)
                               ELSE transactions
            /\ transactionsError' = IF applies /\ ~ok THEN "queryError"
                                    ELSE transactionsError
    /\ UNCHANGED <<dbCats, dbTxns, nextId, memCats, isSeeding, loads, seed,
                   op, made, page, left, categoriesError, pure, flight,
                   accountId, loading, currentAccountIdRef, inserts, edits>>

\* loadTransactions: the select of a manual load answers.
LoadTransactions(f) ==
    /\ f \in fetches /\ f.manual
    /\ fetches' = fetches \ {f}
    /\ \E ok \in BOOLEAN :
         LET applies == currentAccountIdRef = f.account
         IN /\ transactions' = IF applies /\ ok
                               THEN SelectTransactions(dbTxns, f.account)
                               ELSE transactions
            /\ transactionsError' = IF applies /\ ~ok THEN "queryError"
                                    ELSE transactionsError
            /\ loading' = IF applies THEN FALSE ELSE loading
    /\ UNCHANGED <<dbCats, dbTxns, nextId, memCats, isSeeding, loads, seed,
                   op, made, page, left, categoriesError, pure, flight, accountId,
                   currentAccountIdRef, inserts, edits>>

RECURSIVE RowsToCome(_)
\* the number of rows the calls in flight are about to insert
RowsToCome(calls) ==
    IF calls = <<>> THEN 0
    ELSE Len(Head(calls).toInsert) + RowsToCome(Tail(calls))

\* addTransactions(newTransactions, transactionAccountId) up to its insert;
\* a batch without a new transaction returns [] at once.
AddTransactions(newTransactions, transactionAccountId) ==
    /\ page = "main"
    /\ UserCall
    /\ transactionsError' = ""
    /\ LET deduped == dedupedTransactions(newTransactions, transactions)
       IN /\ Len(dbTxns) + RowsToCome(inserts) + Len(deduped) <= MaxRows
          /\ IF Len(deduped) = 0
             THEN UNCHANGED inserts
             ELSE inserts' = Append(inserts,
                    [newTransactions |-> newTransactions,
                     known |-> transactions,
                     toInsert |-> transactionsToInsert(
                                     deduped, transactionAccountId)])
    /\ UNCHANGED <<dbCats, dbTxns, nextId, memCats, isSeeding, loads, seed,
                   op, page, left, categoriesError, pure, flight, accountId, transactions,
                   loading, currentAccountIdRef, fetches, edits>>

\* s without its k-th entry
Remove(s, k) == SubSeq(s, 1, k - 1) \o SubSeq(s, k + 1, Len(s))

\* the insert of the k-th addTransactions call in flight answers: the rows
\* it returns are appended to the list of the moment.
AddTransactionsInsert(k) ==
    /\ k \in 1..Len(inserts)
    /\ inserts' = Remove(inserts, k)
    /\ \E ok \in BOOLEAN :
         IF ok
         THEN /\ dbTxns' = InsertTransactions(dbTxns, inserts[k].toInsert)
              /\ transactions' =
                   transactions \o SubSeq(dbTxns', Len(dbTxns) + 1,
                                          Len(dbTxns'))
              /\ UNCHANGED transactionsError
         ELSE /\ transactionsError' = "insertError"
              /\ UNCHANGED <<dbTxns, transactions>>
    /\ UNCHANGED <<dbCats, nextId, memCats, isSeeding, loads, seed, op, made,
                   page, left, categoriesError, pure, flight, accountId, loading,
                   currentAccountIdRef, fetches, edits>>

\* onChange of the select of a row of the list, then
\* updateTransactionCategory(id, {id, label}) up to its update; the closure
\* holds the `transactions` of the render
SelectTransactionCategory(i, selectedLabel) ==
    /\ page = "main"
    /\ UserCall
    /\ i \in 1..Len(transactions)
    /\ LET options == sortedCategoryOptions(memCats, transactions)
       IN /\ \E k \in 1..Len(options) : options[k].label = selectedLabel
          /\ selectedLabel # SelectValue(options, transactions[i])
          /\ edits' = edits \cup
               {[id |-> transactions[i].id,
                 category |->
                   [id |-> FirstOption(options,
                                       LAMBDA o : o.label = selectedLabel).id,
                    label |-> selectedLabel],
                 closure |-> transactions]}
    /\ UNCHANGED <<dbCats, dbTxns, nextId, memCats, isSeeding, loads, seed,
                   op, page, left, categoriesError, pure, flight, accountId, transactions,
                   loading, transactionsError, currentAccountIdRef, fetches,
                   inserts>>

\* transactions.map(...) of updateTransactionCategory
WithCategory(txns, id, category) ==
    [i \in 1..Len(txns) |->
       IF txns[i].id = id
       THEN [txns[i] EXCEPT !.category = category.label,
                            !.category_id = category.id]
       ELSE txns[i]]

\* the update of an updateTransactionCategory call answers: the list
\* becomes the list of the closure with the row changed.
UpdateTransactionCategoryWrite(e) ==
    /\ e \in edits
    /\ edits' = edits \ {e}
    /\ \E ok \in BOOLEAN :
         IF ok /\ ForeignKeyOk(dbCats, e.category.id)
         THEN /\ dbTxns' = WithCategory(dbTxns, e.id, e.category)
              /\ transactions' = WithCategory(e.closure, e.id, e.category)
              /\ UNCHANGED transactionsError
         ELSE /\ transactionsError' = "error"
              /\ UNCHANGED <<dbTxns, transactions>>
    /\ UNCHANGED <<dbCats, nextId, memCats, isSeeding, loads, seed, op, made,
                   page, left, categoriesError, pure, flight, accountId, loading,
                   currentAccountIdRef, fetches, inserts>>

\* a store that holds the seeded categories and the transactions of an
\* earlier upload, filed under Income -> Salary; useCategories has loaded it
LedgerStore ==
    /\ dbCats = SeededRows
    /\ dbTxns = [t \in TxnIds |->
                   TxnRow(t, buildTreeAndPaths(SelectCategories(SeededRows))
                               [NumSeeds], NumSeeds)]
    /\ nextId = NumSeeds + 1
    /\ memCats = SelectCategories(dbCats)
    /\ isSeeding = FALSE
    /\ loads = {}
    /\ seed = [pc |-> 0, ids |-> <<>>]
    /\ op = NoOp
    /\ made = 0
    /\ left = NothingLeft
    /\ categoriesError = ""

\* the main page has mounted useTransactions() on that store: the effect has
\* started the first load
InitLedger ==
    /\ LedgerStore
    /\ page = "main"
    /\ NoFunction
    /\ accountId = NULL
    /\ transactions = <<>>
    /\ loading = TRUE
    /\ transactionsError = ""
    /\ currentAccountIdRef = NULL
    /\ fetches = {[account |-> NULL, manual |-> FALSE,
                   aborted |-> FALSE, abandoned |-> FALSE]}
    /\ inserts = <<>>
    /\ edits = {}

\* the calls of the main page on useTransactions and their answers
NextLedger ==
    \/ \E account \in AccountIds \cup {NULL} : SelectAccount(account)
    \/ \E f \in fetches : LoadTransactionsForAccount(f)
    \/ RefreshTransactions
    \/ \E f \in fetches : LoadTransactions(f)
    \/ \E newTransactions \in Batches,
          transactionAccountId \in AccountIds \cup {UNDEF} :
         AddTransactions(newTransactions, transactionAccountId)
    \/ \E k \in 1..Len(inserts) : AddTransactionsInsert(k)
    \/ \E i \in 1..Len(transactions) :
         \E k \in 1..Len(sortedCategoryOptions(memCats, transactions)) :
           SelectTransactionCategory(
               i, sortedCategoryOptions(memCats, transactions)[k].label)
    \/ \E e \in edits : UpdateTransactionCategoryWrite(e)

SpecLedger == InitLedger /\ [][NextLedger]_vars

\* the store answers every select: a load in flight does not wait for ever
SpecLedgerAnswered ==
    /\ SpecLedger
    /\ WF_vars(\E f \in fetches : LoadTransactionsForAccount(f))
    /\ WF_vars(\E f \in fetches : LoadTransactions(f))

(* ------------- a session of uploads or a session of category edits ------ *)

\* the main page, or the settings page, on that store
InitFrame ==
    \/ InitLedger
    \/ LedgerStore /\ page = "settings" /\ NoLedger /\ NoFunction

\* the uploads of the main page, and the category operations of the
\* settings page
NextFrame ==
    \/ \E f \in fetches : LoadTransactionsForAccount(f)
    \/ \E newTransactions \in Batches,
          transactionAccountId \in AccountIds \cup {UNDEF} :
         AddTransactions(newTransactions, transactionAccountId)
    \/ \E k \in 1..Len(inserts) : AddTransactionsInsert(k)
    \/ \E name \in RawNames, parentId \in ParentInputs :
         CreateCategory(name, parentId)
    \/ NextCascade

SpecFrame == InitFrame /\ [][NextFrame]_vars

(* ------------------------------- parseCSV ------------------------------- *)

\* A text is the sequence of its lines (what stands between the '\n'), a
\* line a sequence of characters and words.  Column indices count from 1
\* and 0 stands for the -1 of findIndex.

MaxDataRows == 2

\* the line holds white space only
Blank(line) == Trim(line) = <<>>

RECURSIVE DropBlankStart(_)
DropBlankStart(lines) ==
    IF lines # <<>> /\ Blank(Head(lines)) THEN DropBlankStart(Tail(lines))
    ELSE lines

RECURSIVE DropBlankEnd(_)
DropBlankEnd(lines) ==
    IF lines # <<>> /\ Blank(lines[Len(lines)])
    THEN DropBlankEnd(SubSeq(lines, 1, Len(lines) - 1))
    ELSE lines

\* csvText.trim().split('\n'): white space, line ends included, goes from
\* both ends of the text; an empty text splits into one empty line
TrimSplit(csvText) ==
    LET kept == DropBlankEnd(DropBlankStart(csvText))
    IN IF kept = <<>> THEN << <<>> >>
       ELSE [i \in 1..Len(kept) |->
               LET a == IF i = 1 THEN TrimStart(kept[i]) ELSE kept[i]
               IN IF i = Len(kept) THEN TrimEnd(a) ELSE a]

RECURSIVE SplitCells(_, _, _)
\* parseCSVLine from position i on, `current` and `inQuotes` as in the code:
\* a quote toggles inQuotes and is dropped, a comma outside quotes ends the
\* cell, every cell is trimmed
SplitCells(line, current, inQuotes) ==
    IF line = <<>> THEN << Trim(current) >>
    ELSE IF Head(line) = "\"" THEN SplitCells(Tail(line), current, ~inQuotes)
    ELSE IF Head(line) = "," /\ ~inQuotes
         THEN << Trim(current) >> \o SplitCells(Tail(line), <<>>, FALSE)
    ELSE SplitCells(Tail(line), Append(current, Head(line)), inQuotes)

parseCSVLine(line) == SplitCells(line, <<>>, FALSE)

RECURSIVE SplitComma(_, _)
\* String.prototype.split(','): every comma ends a cell
SplitComma(line, current) ==
    IF line = <<>> THEN << current >>
    ELSE IF Head(line) = "," THEN << current >> \o SplitComma(Tail(line), <<>>)
    ELSE SplitComma(Tail(line), Append(current, Head(line)))

\* line 9: lines[0].split(',').map(h => h.trim().toLowerCase())
headersOf(line) ==
    LET cells == SplitComma(line, <<>>)
    IN [i \in 1..Len(cells) |-> ToLowerCase(Trim(cells[i]))]

\* h.includes(word), the words of the model being whole words of a cell
includes(h, word) == \E k \in 1..Len(h) : h[k] = word

\* headers.findIndex(h => some of `words` is in h and none of `without`)
findIndex(headers, words, without) ==
    LET S == { i \in 1..Len(headers) :
                 /\ \E w \in words : includes(headers[i], w)
                 /\ \A w \in without : ~includes(headers[i], w) }
    IN IF S = {} THEN 0 ELSE CHOOSE i \in S : \A j \in S : i <= j

\* lines 12-27: the column of each role
columnsOf(headers) ==
    [dateIndex |-> findIndex(headers, {"date"}, {}),
     descIndex |-> findIndex(headers, {"description", "narration",
                                        "details", "reference"}, {}),
     amountIndex |-> findIndex(headers, {"amount"}, {"balance"}),
     balanceIndex |-> findIndex(headers, {"balance"}, {}),
     debitIndex |-> findIndex(headers, {"debit", "withdrawal"}, {}),
     creditIndex |-> findIndex(headers, {"credit", "deposit"}, {})]

\* parseFloat of the numerals of the model, in thousandths: the number the
\* text starts with, NaN when it starts with none.  No cell of the model
\* holds two numerals next to each other.
parseFloat(text) ==
    IF text = <<>> THEN [nan |-> TRUE, num |-> 0]
    ELSE CASE Head(text) = "850.50" -> [nan |-> FALSE, num |-> 850500]
           [] Head(text) = "-850.50" -> [nan |-> FALSE, num |-> -850500]
           [] Head(text) = "15000.00" -> [nan |-> FALSE, num |-> 15000000]
           [] Head(text) = "2024-01-05" -> [nan |-> FALSE, num |-> 2024000]
           [] Head(text) = "20240105" ->
                [nan |-> FALSE, num |-> 20240105 * 1000]
           [] OTHER -> [nan |-> TRUE, num |-> 0]

\* lines 98-103
parseAmount(value) ==
    LET cleaned ==
          SelectSeq(SelectSeq(value,
                              LAMBDA c : c \notin {"R", "$", ",", " "}),
                    LAMBDA c : c \notin {"(", ")"})
        num == parseFloat(cleaned)
    IN IF num.nan THEN 0 ELSE num.num

\* lines 105-126; `west` says that local time is behind UTC, where the
\* midnight UTC that new Date('2024-01-05') stands for is the day before
normalizeDate(value, west) ==
    LET trimmed == Trim(value)
    IN IF trimmed = <<"20240105">> THEN <<"2024-01-05">>
       ELSE IF trimmed = <<"2024-01-05">>
            THEN IF west THEN <<"2024-01-04">> ELSE <<"2024-01-05">>
       ELSE trimmed

Max(a, b) == IF a >= b THEN a ELSE b

\* variant of line 45: a row must reach beyond both columns
rowCoversBeyond(values, cols) ==
    Len(values) > Max(cols.dateIndex, cols.descIndex)

\* line 45, negated: values.length > Math.max(dateIndex, descIndex), with
\* indices that count from 0
rowCovers(values, cols) ==
    Len(values) >= Max(cols.dateIndex, cols.descIndex)

\* values[index] is a string that is not empty
truthy(values, index) == index \in 1..Len(values) /\ values[index] # <<>>

\* lines 47-56
amountOf(values, cols) ==
    IF cols.amountIndex # 0 /\ truthy(values, cols.amountIndex)
    THEN parseAmount(values[cols.amountIndex])
    ELSE LET debit == IF cols.debitIndex # 0
                         /\ truthy(values, cols.debitIndex)
                      THEN parseAmount(values[cols.debitIndex]) ELSE 0
             credit == IF cols.creditIndex # 0
                          /\ truthy(values, cols.creditIndex)
                       THEN parseAmount(values[cols.creditIndex]) ELSE 0
         IN credit - debit

\* lines 40-70 for line i: the transactions it adds, none or one.  Of the
\* id `${Date.now()}-${i}-${Math.random()}` the model keeps i.
rowOf(lines, i, cols, west) ==
    LET line == Trim(lines[i])
        values == parseCSVLine(line)
    IN IF line = <<>> THEN <<>>
       ELSE IF ~rowCovers(values, cols) THEN <<>>
       ELSE << [id |-> i,
                date |-> normalizeDate(values[cols.dateIndex], west),
                description |-> values[cols.descIndex],
                amount |-> amountOf(values, cols),
                balance |-> IF cols.balanceIndex # 0
                               /\ truthy(values, cols.balanceIndex)
                            THEN parseAmount(values[cols.balanceIndex])
                            ELSE UNDEF,
                category |-> SYSTEM_CATEGORY_NAME] >>

Thrown(message) == [error |-> message, transactions |-> <<>>]

\* parseCSV: what it returns, or the error it throws
parseCSV(csvText, west) ==
    LET lines == TrimSplit(csvText)
        cols == columnsOf(headersOf(lines[1]))
    IN IF Len(lines) < 2 THEN Thrown("at least a header row and one data row")
       ELSE IF cols.dateIndex = 0 \/ cols.descIndex = 0
            THEN Thrown("no date or description column")
       ELSE IF cols.amountIndex = 0
               /\ (cols.debitIndex = 0 \/ cols.creditIndex = 0)
            THEN Thrown("no amount, debit or credit column")
       ELSE [error |-> "",
             transactions |->
               FlatMap(LAMBDA i : rowOf(lines, i, cols, west),
                       [k \in 1..(Len(lines) - 1) |-> k + 1])]

\* header lines: the three roles; debit and credit beside the amount; debit
\* and credit alone; the description first; a balance; and two that lack a
\* role
HeaderLines ==
    { <<"Date", ",", "Description", ",", "Amount">>,
      <<"Date", ",", "Description", ",", "Amount", ",", "Debit", ",",
        "Credit">>,
      <<"Date", ",", "Description", ",", " ", "Debit", ",", "Credit">>,
      <<"Description", ",", "Date", ",", "Amount">>,
      <<"Date", ",", "Description", ",", "Amount", ",", "Balance">>,
      <<"Date", ",", "Amount">>,
      <<"Date", ",", "Description", ",", "Debit">> }

\* data lines: three plain cells; a compact date, a quoted description with
\* a comma in it, an amount with a currency sign; an empty amount and a
\* debit; an amount that is no number and a credit; five cells; the date
\* alone; date and description alone; a blank line; a negative amount
DataLines ==
    { <<"2024-01-05", ",", "Rent", ",", "850.50">>,
      <<"20240105", ",", "\"", "Rent", ",", " ", "flat", "\"", ",",
        "R", " ", "15000.00">>,
      <<"2024-01-05", ",", "Rent", ",", ",", "850.50", ",">>,
      <<"2024-01-05", ",", "Rent", ",", "abc", ",", ",", "15000.00">>,
      <<"2024-01-05", ",", "Rent", ",", "15000.00", ",", "850.50", ",",
        "(", "850.50", ")">>,
      <<"2024-01-05">>,
      <<"2024-01-05", ",", "Rent">>,
      <<" ">>,
      <<" ", "2024-01-05", ",", "Rent", ",", "-850.50", " ">> }

\* the texts parseCSV is applied to, and the time zone it runs in
ParseInputs ==
    { [csvText |-> <<h>> \o rows, west |-> w] :
        h \in HeaderLines,
        rows \in UNION { [1..n -> DataLines] : n \in 0..MaxDataRows },
        w \in BOOLEAN }

\* parseCSV is called on a text
InitParse ==
    /\ LedgerStore
    /\ page = "main"
    /\ NoLedger
    /\ input \in ParseInputs
    /\ output = NotApplied
    /\ flight = NoFlight

ParseCSV ==
    /\ output = NotApplied
    /\ output' = parseCSV(input.csvText, input.west)
    /\ UNCHANGED <<dbCats, dbTxns, nextId, memCats, isSeeding, loads, seed,
                   op, made, page, left, categoriesError, ledger, input,
                   flight>>

NextParse == ParseCSV

SpecParse == InitParse /\ [][NextParse]_vars

(* ------------------- the builders on any flat collection ---------------- *)

MaxFlat == 3

\* the names of the categories of a flat collection, by id
FlatNames == <<SYSTEM_CATEGORY_NAME, <<"Income">>, <<"Salary">>, <<"Rent">>>>

\* the flat collections the builders are applied to: up to MaxFlat categories
\* whose parent_id is null or the id of any category of the collection, its
\* own included
FlatCollections ==
    UNION { { [i \in 1..n |->
                 [id |-> i, name |-> FlatNames[(i % 4) + 1],
                  parent_id |-> parent[i], is_system |-> FALSE]] :
                parent \in [1..n -> 0..n] } : n \in 0..MaxFlat }

RECURSIVE Unreturning(_, _, _)
\* collectDescendants(categoryId) of the source nests calls deeper than
\* `fuel`; deeper than the collection is long, a category is in the nest
\* twice and the nest has no end
Unreturning(categories, categoryId, fuel) ==
    IF fuel = 0 THEN TRUE
    ELSE \E i \in 1..Len(categories) :
           /\ categories[i].parent_id = categoryId
           /\ Unreturning(categories, categories[i].id, fuel - 1)

\* buildDescendantsMap: the map, or the RangeError of the engine when the
\* nest of calls has used up the stack
buildDescendantsMap(categories) ==
    IF \E i \in 1..Len(categories) :
         Unreturning(categories, categories[i].id, Len(categories) + 1)
    THEN [fn |-> "buildDescendantsMap",
          error |-> "RangeError: Maximum call stack size exceeded",
          map |-> <<>>]
    ELSE [fn |-> "buildDescendantsMap",
          error |-> "",
          map |-> [i \in 1..Len(categories) |->
                     collectDescendants(categories, categories[i].id)]]

\* the builders are called on a flat collection
InitTree ==
    /\ LedgerStore
    /\ page = "main"
    /\ NoLedger
    /\ input \in FlatCollections
    /\ output = NotApplied
    /\ flight = NoFlight

BuildTreeAndPaths ==
    /\ output = NotApplied
    /\ output' = [fn |-> "buildTreeAndPaths", error |-> "",
                  pathMap |-> buildTreeAndPaths(input)]
    /\ UNCHANGED <<dbCats, dbTxns, nextId, memCats, isSeeding, loads, seed,
                   op, made, page, left, categoriesError, ledger, input,
                   flight>>

BuildDescendantsMap ==
    /\ output = NotApplied
    /\ output' = buildDescendantsMap(input)
    /\ UNCHANGED <<dbCats, dbTxns, nextId, memCats, isSeeding, loads, seed,
                   op, made, page, left, categoriesError, ledger, input,
                   flight>>

NextTree ==
    \/ BuildTreeAndPaths
    \/ BuildDescendantsMap

SpecTree == InitTree /\ [][NextTree]_vars

(* ------------------------------ properties ------------------------------ *)

\* the ids of the rows of the store
StoreIds == { r.id : r \in dbCats }

\* id p lies below id c in `categories`: following parent_id upwards from p
\* reaches c after one step or more
IsBelow(categories, p, c) ==
    \E n \in 1..Len(categories) : NthParent(categories, p, n) = c

\* `categories` is a forest: one entry, hence one parent, per id, and no
\* entry is its own ancestor
IsForest(categories) ==
    /\ \A i, j \in 1..Len(categories) :
         categories[i].id = categories[j].id => i = j
    /\ \A i \in 1..Len(categories) :
         ~IsBelow(categories, categories[i].id, categories[i].id)

\* this step is the user calling the operation `kind`
Calls(kind) == made' # made /\ op'.kind = kind

\* this step left the categories of the store and of the hook as they were
TreeUnchanged == dbCats' = dbCats /\ nextId' = nextId /\ memCats' = memCats

\* C1: updateCategory(c, {parent_id: p}) on a non-system category c of the
\* hook's tree, with p a child or a deeper descendant of c in that tree, is
\* rejected with a validation error, and the categories of the hook and of
\* the store are what they were before the call.
C1_IllegalReparentRejected ==
    [][ ( /\ Calls("update")
          /\ Has(memCats, op'.id)
          /\ ~Find(memCats, op'.id).is_system
          /\ op'.updates.parent_id \in CatIds
          /\ IsBelow(memCats, op'.updates.parent_id, op'.id) )
        => ( /\ op'.status = "validation"
             /\ op'.calls = 0
             /\ TreeUnchanged ) ]_vars

\* C1 witness: a move of a category under its grandchild has been rejected.
C1_Witness ==
    /\ op.kind = "update" /\ op.status = "validation"
    /\ op.error = "A category cannot be moved under one of its subcategories"
    /\ op.updates.parent_id \in CatIds
    /\ Has(memCats, op.updates.parent_id)
    /\ Find(memCats, op.updates.parent_id).parent_id \notin {NULL, op.id}
    /\ NthParent(memCats, op.updates.parent_id, 2) = op.id

\* C2: whatever createCategory, updateCategory and deleteCategory calls have
\* completed, the parent_id relation is a forest, in the store and in the
\* hook: one parent per category and no category among its own ancestors.
C2_ForestPreserved ==
    op.status # "running" =>
      /\ IsForest(SelectCategories(dbCats))
      /\ IsForest(memCats)

\* C3: updateCategory and deleteCategory on a category whose is_system flag
\* is true fail with a validation error whatever the name and the parent
\* given, and change neither the categories nor the transactions.
C3_SystemCategoryProtected ==
    [][ ( /\ Calls("update") \/ Calls("delete")
          /\ \E r \in dbCats : r.id = op'.id /\ r.is_system )
        => ( /\ op'.status = "validation"
             /\ op'.calls = 0
             /\ TreeUnchanged
             /\ dbTxns' = dbTxns ) ]_vars

\* C3 witness: a rename with a valid name and a new parent has been refused
\* because its target is the system category.
C3_Witness ==
    /\ op.kind = "update" /\ op.status = "validation"
    /\ op.error = "System categories cannot be modified"
    /\ op.updates.hasName /\ Trim(op.updates.name) # <<>>
    /\ op.updates.parent_id \in CatIds
    /\ \E r \in dbCats : r.id = op.id /\ r.is_system

\* the call record c is about the category c.id and whatever lay below it in
\* the list the call started from
AffectedSet(c) == {c.id} \cup { k \in CatIds : IsBelow(c.cats, k, c.id) }

\* the full path of k before / after the update c
OldPath(c, k) == buildTreeAndPaths(c.cats)[k]
NewPath(c, k) ==
    buildTreeAndPaths(updatedCategories(c.cats, c.id, c.updates))[k]

\* the full paths, before the call c, of the categories c is about
OldPaths(c) == { OldPath(c, k) : k \in AffectedSet(c) } \ {NoPath}

\* sequence p is a proper prefix of sequence s
IsProperPrefix(p, s) == Len(p) < Len(s) /\ SubSeq(s, 1, Len(p)) = p

\* C4: after a successful updateCategory, for every affected id k whose full
\* path changed from old_k to new_k, every transaction labelled exactly old_k
\* before the call is labelled new_k.
C4_LabelsFollowOwnPath ==
    (op.kind = "update" /\ op.status = "ok") =>
      \A k \in AffectedSet(op) :
        ( /\ OldPath(op, k) # NoPath
          /\ NewPath(op, k) # NoPath
          /\ OldPath(op, k) # NewPath(op, k) )
        => \A t \in TxnIds :
             op.pre[t].category = OldPath(op, k)
               => dbTxns[t].category = NewPath(op, k)

\* C5: from the first to the last step of updateCategory, a transaction whose
\* label before the call was not exactly the old full path of an affected id
\* keeps that label.
C5_OtherLabelsKept ==
    (op.kind = "update" /\ op.status \in {"running", "ok", "store"}) =>
      \A t \in TxnIds :
        op.pre[t].category \notin OldPaths(op)
          => dbTxns[t].category = op.pre[t].category

\* C5 witness: updateCategory has rewritten a path and returned, and a
\* transaction whose label only starts with that path has kept its label.
C5_Witness ==
    /\ op.kind = "update" /\ op.status = "ok" /\ op.calls >= 2
    /\ \E t \in TxnIds :
         /\ op.pre[t].category \notin OldPaths(op)
         /\ \E o \in OldPaths(op) : IsProperPrefix(o, op.pre[t].category)
         /\ dbTxns[t].category = op.pre[t].category

\* C6: after a successful deleteCategory(c), every transaction that was
\* labelled with the full path of c or of a descendant of c carries the
\* system label, c and its descendants are gone from the hook's list, and the
\* store holds neither c nor a row whose parent is c.
C6_DeleteCascade ==
    (op.kind = "delete" /\ op.status = "ok") =>
      /\ \A t \in TxnIds :
           op.pre[t].category \in OldPaths(op)
             => dbTxns[t].category = SYSTEM_CATEGORY_NAME
      /\ \A k \in AffectedSet(op) : ~Has(memCats, k)
      /\ \A r \in dbCats : r.id # op.id /\ r.parent_id # op.id

\* C6 witness: a category with a child has been deleted and a transaction
\* labelled with the path of the child now carries the system label.
C6_Witness ==
    /\ op.kind = "delete" /\ op.status = "ok"
    /\ \E k \in AffectedSet(op) \ {op.id}, t \in TxnIds :
         /\ OldPath(op, k) # NoPath
         /\ op.pre[t].category = OldPath(op, k)
         /\ dbTxns[t].category = SYSTEM_CATEGORY_NAME

\* C7: except while updateCategory or deleteCategory is between its first
\* and its last store call, every transaction with a category_id carries the
\* full path of the category that id refers to in the store.
C7_LabelMatchesCategoryId ==
    ~(op.kind \in {"update", "delete"} /\ op.status = "running") =>
      \A t \in TxnIds :
        dbTxns[t].category_id # NULL =>
          /\ dbTxns[t].category_id \in StoreIds
          /\ dbTxns[t].category =
               buildTreeAndPaths(SelectCategories(dbCats))
                 [dbTxns[t].category_id]

\* the call c, made on the list `categories`, has one of the input faults:
\* name empty after trimming, category not found, system category, parent
\* equal to self, parent among own descendants
InvalidInput(categories, c) ==
    \/ c.kind = "create" /\ Trim(c.updates.name) = <<>>
    \/ /\ c.kind \in {"update", "delete"}
       /\ \/ ~Has(categories, c.id)
          \/ Find(categories, c.id).is_system
    \/ /\ c.kind = "update"
       /\ \/ c.updates.hasName /\ Trim(c.updates.name) = <<>>
          \/ c.updates.parent_id = c.id
          \/ /\ c.updates.parent_id \in CatIds
             /\ IsBelow(categories, c.updates.parent_id, c.id)

\* C8: a createCategory, updateCategory or deleteCategory call whose input
\* has a validation fault is rejected at once: it has issued no store call,
\* and categories and transactions of the store are untouched.
C8_ValidationBeforeStore ==
    [][ ( /\ made' # made
          /\ InvalidInput(memCats, op') )
        => ( /\ op'.status = "validation"
             /\ op'.calls = 0
             /\ dbCats' = dbCats /\ nextId' = nextId /\ dbTxns' = dbTxns ) ]_vars

\* C8 witness: createCategory has been rejected for a name made of blanks.
C8_Witness ==
    /\ op.kind = "create" /\ op.status = "validation" /\ op.calls = 0
    /\ op.updates.name # <<>> /\ Trim(op.updates.name) = <<>>

\* C9: in the store no two categories with the same parent_id, the root
\* level (no parent) included, have the same name.
C9_SiblingNamesUnique ==
    \A r1, r2 \in dbCats :
      (r1.parent_id = r2.parent_id /\ r1.name = r2.name) => r1.id = r2.id

\* the system categories of the store
SystemRows == { r \in dbCats : r.is_system }

\* C10: once the store holds a system category, every step of load, seed,
\* create, update and delete leaves it with exactly one, and that one has a
\* full path: its parent chain ends at a root.
C10_OneReachableSystemCategory ==
    [][ SystemRows # {} =>
          /\ Cardinality(SystemRows') = 1
          /\ \A r \in SystemRows' :
               buildTreeAndPaths(SelectCategories(dbCats'))[r.id] # NoPath
      ]_vars

\* the columns of a transaction that no category operation and no ingestion
\* is to touch
Core(r) ==
    [id |-> r.id, date |-> r.date, description |-> r.description,
     amount |-> r.amount, balance |-> r.balance, account_id |-> r.account_id]

\* every row of the table is still there, with its core columns
RowsKept ==
    /\ Len(dbTxns') >= Len(dbTxns)
    /\ \A t \in 1..Len(dbTxns) : Core(dbTxns'[t]) = Core(dbTxns[t])

\* a step of an updateCategory or deleteCategory call
CascadeStep == op'.kind \in {"update", "delete"}

\* C11 as stated: no step of createCategory, updateCategory, deleteCategory
\* or addTransactions removes a transaction or changes its id, date,
\* description, amount, balance or account_id, and a step of an update or
\* delete cascade changes no column but the category label.
C11_OnlyLabelChanged ==
    [][ /\ RowsKept
        /\ CascadeStep =>
             \A t \in 1..Len(dbTxns) :
               dbTxns'[t].category_id = dbTxns[t].category_id ]_vars

\* C11, amended: no step of createCategory, updateCategory, deleteCategory
\* or addTransactions removes a transaction or changes its id, date,
\* description, amount, balance or account_id (addTransactions only appends,
\* to the table and to the list); a step of an update or delete cascade
\* changes the category label only, except that the delete of the category
\* rows clears the category_id of the transactions that referenced one of
\* them.
C11_TransactionsKept ==
    [][ /\ RowsKept
        /\ inserts' # inserts /\ transactions' # transactions =>
             SubSeq(transactions', 1, Len(transactions)) = transactions
        /\ CascadeStep =>
             \A t \in 1..Len(dbTxns) :
               \/ dbTxns'[t].category_id = dbTxns[t].category_id
               \/ /\ op'.kind = "delete"
                  /\ dbCats' # dbCats
                  /\ dbTxns[t].category_id \notin { r.id : r \in dbCats' }
                  /\ dbTxns'[t].category_id = NULL ]_vars

\* a delete cascade has cleared the category_id and reset the label of a
\* transaction, which is still there with its core columns
C11_Witness ==
    /\ op.kind = "delete" /\ op.status = "ok"
    /\ \E t \in TxnIds :
         /\ op.pre[t].category_id # NULL
         /\ dbTxns[t].category_id = NULL
         /\ dbTxns[t].category = SYSTEM_CATEGORY_NAME
         /\ Core(dbTxns[t]) = Core(op.pre[t])

\* the fingerprints of a list of transactions
Fingerprints(txns) == { createTransactionKey(txns[i]) : i \in 1..Len(txns) }

\* the candidates of a batch, in batch order, whose fingerprint no known
\* transaction and no earlier candidate of the batch has
FirstOccurrences(batch, known) ==
    LET idx == SelectSeq([i \in 1..Len(batch) |-> i],
                         LAMBDA i :
                           /\ createTransactionKey(batch[i])
                                \notin Fingerprints(known)
                           /\ \A j \in 1..(i - 1) :
                                createTransactionKey(batch[j])
                                  # createTransactionKey(batch[i]))
    IN [k \in 1..Len(idx) |-> batch[idx[k]]]

\* what the statement line of each transaction of a list says: date,
\* description, and the amount as the DECIMAL(15, 2) column holds it
Lines(txns) ==
    [i \in 1..Len(txns) |->
       <<txns[i].date, txns[i].description, Decimal2(txns[i].amount)>>]

\* C12: an addTransactions call sends to the store exactly the candidates of
\* its batch, in batch order, whose fingerprint (trimmed date | trimmed
\* lowercased description | amount to 2 decimals) is neither a fingerprint
\* of the transactions the hook knew at the call nor the fingerprint of an
\* earlier candidate of the batch; the insert appends exactly these rows to
\* the table and to the list, and a call itself changes no row.
C12_FirstOccurrencesInserted ==
    [][ /\ made' # made => dbTxns' = dbTxns
        /\ Len(inserts') > Len(inserts) =>
             LET r == inserts'[Len(inserts')]
             IN /\ r.known = transactions
                /\ Lines(r.toInsert)
                     = Lines(FirstOccurrences(r.newTransactions, r.known))
                /\ r.toInsert # <<>>
        /\ dbTxns' # dbTxns /\ inserts' # inserts =>
             \E k \in 1..Len(inserts) :
               LET r == inserts[k]
                   added == SubSeq(dbTxns', Len(dbTxns) + 1, Len(dbTxns'))
               IN /\ inserts' = Remove(inserts, k)
                  /\ SubSeq(dbTxns', 1, Len(dbTxns)) = dbTxns
                  /\ Lines(added)
                       = Lines(FirstOccurrences(r.newTransactions, r.known))
                  /\ transactions' = transactions \o added ]_vars

\* a row has been inserted, and a call is in flight whose batch held the
\* same statement line twice, written differently, while the hook knew
\* other transactions: only the first of the two goes to the store
C12_Witness ==
    /\ Len(dbTxns) > NumTxns
    /\ \E r \in Range(inserts) :
         /\ Len(r.newTransactions) = 2 /\ Len(r.toInsert) = 1
         /\ r.newTransactions[1] # r.newTransactions[2]
         /\ createTransactionKey(r.newTransactions[1])
              = createTransactionKey(r.newTransactions[2])
         /\ r.toInsert[1].date = r.newTransactions[1].date
         /\ r.known # <<>>

\* C13: the keys that gate an insert are those of the table at the time of
\* the insert, so no statement line is inserted twice: no two rows of the
\* table have the same fingerprint, also when a batch is submitted before
\* the rows of the batch before it have reached the list.
C13_InsertedAtMostOnce ==
    \A i, j \in 1..Len(dbTxns) :
      i < j => createTransactionKey(dbTxns[i]) # createTransactionKey(dbTxns[j])

\* C14: the answer of a load that was abandoned (the selected account
\* changed after the load was started) changes neither the list nor the
\* error nor the loading flag, and an answer that changes one of them
\* belongs to a load for the selected account.
C14_AbandonedLoadIgnored ==
    [][ \A f \in fetches \ fetches' :
          made' = made =>
            /\ f.abandoned =>
                 /\ transactions' = transactions
                 /\ transactionsError' = transactionsError
                 /\ loading' = loading
            /\ <<transactions', transactionsError', loading'>>
                 # <<transactions, transactionsError, loading>>
               => f.account = accountId ]_vars

\* C15: a step of createCategory, updateCategory or deleteCategory in which
\* a store call fails (the category write or a later transaction rewrite or
\* reset) ends the call with the error of the store, leaves that error in
\* the error state of the hook, and leaves the list of categories as it was
\* when the call was made; no step of a call that is still awaiting the
\* store changes the list.
C15_StoreFailureKeepsCategories ==
    [][ /\ op'.kind \in {"create", "update", "delete"}
           /\ op'.status = "running"
           => memCats' = memCats
        /\ op'.kind \in {"create", "update", "delete"}
           /\ op'.status = "store" /\ op' # op
           => /\ op'.error # ""
              /\ categoriesError' = op'.error
              /\ memCats' = memCats
              /\ op'.kind = "update" => memCats' = op'.cats ]_vars

\* an updateCategory call has failed at a transaction rewrite, after its
\* category write went through: the error is recorded and the list is the
\* one the call was made on, which the store no longer matches
C15_Witness ==
    /\ op.kind = "update" /\ op.status = "store" /\ op.calls >= 2
    /\ categoriesError = op.error /\ categoriesError # ""
    /\ memCats = op.cats
    /\ SelectCategories(dbCats) # memCats

RECURSIVE FullPath(_, _, _)
\* the names from a root down to category id, joined by the separator;
\* NoPath when the parent chain of id does not end at a root of the list
\* within fuel links
FullPath(categories, id, fuel) ==
    IF ~Has(categories, id) \/ fuel = 0 THEN NoPath
    ELSE LET c == Find(categories, id)
         IN IF c.parent_id = NULL THEN c.name
            ELSE IF FullPath(categories, c.parent_id, fuel - 1) = NoPath
            THEN NoPath
            ELSE FullPath(categories, c.parent_id, fuel - 1) \o Sep \o c.name

\* C16: whenever the hook renders, its options list is not empty: for an
\* empty list of categories it is the one placeholder system option;
\* otherwise it has exactly one option per category, labelled with the
\* full path of the category, no non-system option comes before a system
\* option, and among options of the same kind no label comes after a
\* label that sorts behind it.
C16_OptionsList ==
    ~Crashed =>
      LET options == categoryOptions(memCats)
      IN /\ Len(options) >= 1
         /\ memCats = <<>> =>
              options = << [id |-> NULL, label |-> SYSTEM_CATEGORY_NAME,
                            isSystem |-> TRUE] >>
         /\ memCats # <<>> =>
              /\ Len(options) = Len(memCats)
              /\ \A i \in 1..Len(memCats) :
                   \E k \in 1..Len(options) :
                     /\ options[k].id = memCats[i].id
                     /\ \A j \in 1..Len(options) :
                          options[j].id = memCats[i].id => j = k
                     /\ options[k].isSystem = memCats[i].is_system
                     /\ options[k].label # NoPath
                     /\ options[k].label
                          = FullPath(memCats, memCats[i].id, Len(memCats))
              /\ \A i, j \in 1..Len(options) :
                   i < j =>
                     /\ options[j].isSystem => options[i].isSystem
                     /\ options[i].isSystem = options[j].isSystem
                        => ~LabelBefore(options[j].label, options[i].label)

\* four categories are listed, a child among them, and the options come in
\* another order than the categories
C16_Witness ==
    /\ ~Crashed
    /\ Len(memCats) = 4
    /\ \E i \in 1..Len(memCats) : memCats[i].parent_id # NULL
    /\ \E i \in 1..Len(memCats) :
         categoryOptions(memCats)[i].id # memCats[i].id

\* the transactions of a list other than transaction id
Others(txns, id) == SelectSeq(txns, LAMBDA r : r.id # id)

\* in list `after` transaction id has the category label and id of
\* `category` and is otherwise as in list `before`, and the other
\* transactions of `before` and of `after` are the same, unchanged
OnlyCategoryOf(before, after, id, category) ==
    /\ Others(after, id) = Others(before, id)
    /\ \A i \in 1..Len(after) :
         after[i].id = id =>
           /\ after[i].category = category.label
           /\ after[i].category_id = category.id
           /\ \A j \in 1..Len(before) :
                before[j].id = id => Core(after[i]) = Core(before[j])
    /\ \A j \in 1..Len(before) :
         before[j].id = id => \E i \in 1..Len(after) : after[i].id = id

\* C17: when the update of updateTransactionCategory(t, {id, label})
\* answers, either nothing changes (the store refused) or transaction t has
\* category = label and category_id = id (null when id is null) in the table
\* and in the list, and every other transaction of the table and of the
\* list is as it was before the answer.
C17_OnlyThatTransactionChanged ==
    [][ \A e \in edits \ edits' :
          \/ dbTxns' = dbTxns /\ transactions' = transactions
          \/ /\ OnlyCategoryOf(dbTxns, dbTxns', e.id, e.category)
             /\ OnlyCategoryOf(transactions, transactions', e.id,
                               e.category) ]_vars

\* the number of quotes of `line` before position k
QuotesBefore(line, k) == Cardinality({ j \in 1..(k - 1) : line[j] = "\"" })

\* the number of fields of a data line: one more than its commas that do not
\* stand between quotes
FieldCount(line) ==
    1 + Cardinality({ k \in 1..Len(line) :
                        line[k] = "," /\ QuotesBefore(line, k) % 2 = 0 })

\* the roles of the header line of the text parseCSV was applied to
Roles == columnsOf(headersOf(Head(input.csvText)))

\* the data lines, by their place in the text, that are not blank
DataRows == { i \in 2..Len(input.csvText) : ~Blank(input.csvText[i]) }

\* those whose fields reach the date and the description column
CoveringRows ==
    { i \in DataRows :
        FieldCount(input.csvText[i]) >= Max(Roles.dateIndex, Roles.descIndex) }

\* parseCSV was applied to a text whose header gives the date, the
\* description and the amount column and that has a data row
Parsed ==
    /\ output # NotApplied
    /\ Roles.dateIndex # 0 /\ Roles.descIndex # 0 /\ Roles.amountIndex # 0
    /\ DataRows # {}

\* C18: when the header resolves the date, description and amount roles,
\* parseCSV does not fail, and it returns one transaction for every data row
\* that is not blank and whose fields reach the date and description columns,
\* in the order of the rows, and none for any other row: a row with too few
\* fields is left out and as many transactions as well-formed rows come back.
C18_OneTransactionPerCoveringRow ==
    Parsed =>
      /\ output.error = ""
      /\ [k \in 1..Len(output.transactions) |-> output.transactions[k].id]
           = SortedIds(CoveringRows)
      /\ \A k \in 1..Len(output.transactions) :
           output.transactions[k].category = SYSTEM_CATEGORY_NAME

\* C18 witness: of two data rows one has too few fields, and the other one
\* comes back alone
C18_Witness ==
    /\ Parsed
    /\ Cardinality(DataRows) = 2
    /\ Cardinality(CoveringRows) = 1
    /\ output.error = ""
    /\ Len(output.transactions) = 1
    /\ output.transactions[1].id = 3

\* the cell of data line i in column `index`, empty when the line has no
\* such cell or the header no such column
CellOf(i, index) ==
    LET values == parseCSVLine(Trim(input.csvText[i]))
    IN IF index \in 1..Len(values) THEN values[index] ELSE <<>>

\* C19: every transaction parseCSV returns has, when the header has an
\* amount column, the normalised amount cell of its row as its amount, debit
\* and credit columns or not; without an amount column its amount is credit
\* minus debit, a cell that is missing or no number counting as zero.
C19_AmountTakesPrecedence ==
    (output # NotApplied /\ output.error = "") =>
      \A k \in 1..Len(output.transactions) :
        LET t == output.transactions[k]
        IN t.amount =
             IF Roles.amountIndex # 0
             THEN parseAmount(CellOf(t.id, Roles.amountIndex))
             ELSE parseAmount(CellOf(t.id, Roles.creditIndex))
                  - parseAmount(CellOf(t.id, Roles.debitIndex))

\* C20: on a flat collection whose parent_id links contain a cycle, the
\* builder of the tree and path map and the builder of the descendant map
\* both end by failing with a structural error.
C20_CycleIsStructuralError ==
    (output # NotApplied /\ HasCycle(input)) =>
      output.error = "StructuralError"

\* the number of category edits and uploads that await the store
OperationsInFlight ==
    Cardinality(InFlight) + Len(inserts)
      + (IF op.status = "running" THEN 1 ELSE 0)

\* C21: at most one createCategory, updateCategory, deleteCategory or
\* addTransactions call is in flight at any time: a call is accepted only
\* when the call before it has returned or thrown.
C21_OneOperationInFlight == OperationsInFlight <= 1

\* `ids` lists `target` first and then what lies below it in `categories`,
\* each id once and each followed at once by all that lies below it
TargetFirstDepthFirst(categories, ids, target) ==
    /\ ids # <<>> /\ ids[1] = target
    /\ \A i, j \in 1..Len(ids) : ids[i] = ids[j] => i = j
    /\ Range(ids) =
         {target} \cup { categories[k].id : k \in
                           { k \in 1..Len(categories) :
                               IsBelow(categories, categories[k].id, target) } }
    /\ \A i \in 1..Len(ids) :
         LET below == { j \in 1..Len(ids) :
                          IsBelow(categories, ids[j], ids[i]) }
         IN below = (i + 1)..(i + Cardinality(below))

\* the label whose transactions the store call at place c.pc >= 1 of cascade
\* c rewrites: the old path of the affected id at that place
LabelAt(c) ==
    IF c.kind = "update"
    THEN buildTreeAndPaths(c.cats)[affectedIds(c.cats, c.id)[c.pc]]
    ELSE LET ids == SelectSeq(affectedIds(c.cats, c.id),
                              LAMBDA id : buildTreeAndPaths(c.cats)[id]
                                            # NoPath)
         IN buildTreeAndPaths(c.cats)[ids[c.pc]]

ChangedIds(c) ==
    { k \in AffectedSet(c) :
        LET old == FullPath(c.cats, k, Len(c.cats))
            new == FullPath(updatedCategories(c.cats, c.id, c.updates), k,
                            Len(c.cats))
        IN old # NoPath /\ new # NoPath /\ old # new }

\* the old labels that need changing
ChangedLabels(c) == { FullPath(c.cats, k, Len(c.cats)) : k \in ChangedIds(c) }

\* C23: every transaction rewrite call of an updateCategory is for an
\* affected id whose full path the update changes, and when the update
\* returns it has issued as many rewrite calls as there are distinct old
\* labels to change: none when name and parent stay what they were.
C23_OneRewritePerChangedLabel ==
    [][ (op.kind = "update" /\ op.status = "running") =>
          /\ op.pc > 0 =>
               affectedIds(op.cats, op.id)[op.pc] \in ChangedIds(op)
          /\ op'.status = "ok" =>
               op'.calls - 1 = Cardinality(ChangedLabels(op)) ]_vars

\* C24: the path map built from a flat collection gives every category whose
\* parent chain ends at a root the names on that chain, from the root down to
\* the category itself, joined by the separator, a root its own name; and a
\* second build from the same collection gives the same map.
C24_PathsFromRoot ==
    (output # NotApplied /\ output.fn = "buildTreeAndPaths") =>
      /\ \A i \in 1..Len(input) :
           FullPath(input, input[i].id, Len(input)) # NoPath =>
             output.pathMap[input[i].id]
               = FullPath(input, input[i].id, Len(input))
      /\ \A i \in 1..Len(input) :
           input[i].parent_id = NULL =>
             output.pathMap[input[i].id] = input[i].name
      /\ buildTreeAndPaths(input) = output.pathMap

\* C24 witness: a chain of three categories, the last with the path of three
\* names
C24_Witness ==
    /\ output # NotApplied /\ output.fn = "buildTreeAndPaths"
    /\ Len(input) = 3
    /\ \E i \in 1..3 :
         /\ Len(output.pathMap[input[i].id]) = 5
         /\ output.pathMap[input[i].id]
              = FullPath(input, input[i].id, Len(input))

\* this step is the failure of seedDefaultCategories, at one of its inserts
\* or at its closing load
SeedFails ==
    /\ seed.pc \in 1..(NumSeeds + 1)
    /\ seed'.pc = 0
    /\ categoriesError' = "error"

\* this step is the failure of a loadCategories call
LoadFails ==
    /\ \E l \in loads : loads' = loads \ {l}
    /\ seed' = seed
    /\ categoriesError' = "error"

\* C25: the step in which a load or the seeding of the defaults fails issues
\* no store call: no load and no seeding is started by it, and only a call
\* of the user starts one afterwards.
C25_NoAutomaticRetry ==
    [][ /\ (SeedFails \/ LoadFails) /\ made' = made
             => loads' \subseteq loads /\ (seed.pc = 0 => seed'.pc = 0)
        /\ (categoriesError = "error" /\ loads = {} /\ seed.pc = 0
              /\ made' = made)
             => loads' = {} /\ seed'.pc = 0 ]_vars

\* the call that took place s is an updateCategory call that gives its
\* target a new parent and awaits the store
ReparentInFlight(s) ==
    /\ flight[s].kind = "update" /\ flight[s].status = "running"
    /\ flight[s].updates.parent_id \notin {NULL, UNDEF}

\* C26: a step taken while two reparenting updateCategory calls are in
\* flight leaves no cycle among the parent_id links, neither in the store
\* nor in the categories in memory.
C26_NoCycleFromOverlap ==
    [][ (\A s \in 1..MaxInFlight : ReparentInFlight(s)) =>
          /\ ~HasCycle(SelectCategories(dbCats'))
          /\ ~HasCycle(memCats') ]_vars

\* every transaction of list `txns` shows the category and category_id that
\* its row of table `rows` holds
ShowsStoredCategories(txns, rows) ==
    \A i \in 1..Len(txns) :
      \A t \in 1..Len(rows) :
        rows[t].id = txns[i].id =>
          /\ txns[i].category = rows[t].category
          /\ txns[i].category_id = rows[t].category_id

\* C27: when the last of the updateTransactionCategory calls in flight has
\* answered with success, every transaction of the in-memory list shows the
\* category and category_id its row holds in the store, those that calls
\* answered earlier have changed included.
C27_AllChangesShown ==
    [][ (\E e \in edits : edits' = {} /\ dbTxns' # dbTxns) =>
          ShowsStoredCategories(transactions', dbTxns') ]_vars

\* the ids of the categories in memory
MemoryIds == { memCats[i].id : i \in 1..Len(memCats) }

\* C28: once no category call is in flight, every category the store holds,
\* one that createCategory added while an updateCategory or deleteCategory
\* call was in flight included, is in the in-memory collection.
C28_CreatedCategoryKept ==
    InFlight = {} => \A row \in dbCats : row.id \in MemoryIds

\* C29: whenever an account is selected and no load is in flight, every
\* transaction of the in-memory list has the account_id of that account.
C29_ListOfSelectedAccount ==
    (accountId \in AccountIds /\ fetches = {}) =>
      \A i \in 1..Len(transactions) : transactions[i].account_id = accountId

\* the loads in flight that set loading to false when they answer: the load
\* of the effect of the last selection, and the manual loads for the account
\* that is selected
SettlingLoads ==
    { f \in fetches :
        /\ f.account = currentAccountIdRef
        /\ f.manual \/ ~f.aborted }

\* this step is the answer of the load that the effect of the last selection
\* started
LastSelectionAnswers ==
    \E f \in fetches :
      /\ ~f.manual /\ ~f.aborted
      /\ fetches' = fetches \ {f}

\* C30: the answer of the load of the last selection, data or error, sets
\* loading to false; loading is true only while a load that will set it to
\* false is in flight, whatever aborted, stale or manual loads for another
\* account are or were in flight; and when the store answers every select,
\* loading does not stay true for ever.
C30_LoadingSettles ==
    /\ [][LastSelectionAnswers => ~loading']_vars
    /\ [](loading => SettlingLoads # {})
    /\ (loading ~> ~loading)

\* C30 (witness): the load of the last selection has answered and loading is
\* false while a manual load for an account selected before is in flight.
C30_Witness ==
    /\ ~loading
    /\ accountId \in AccountIds
    /\ \E f \in fetches :
         f.manual /\ f.abandoned /\ f.account # currentAccountIdRef

====
